---- MODULE Spec2Model ----
(***************************************************************************)
(* Model of the EnvisaLink syslog listener: its message parser (parser.js:  *)
(* parseCID, getZoneName, parseSyslogMessage) and the listener itself       *)
(* (envisalink-syslog-listener.js: the datagram handler, the outbound      *)
(* sinks, the open-duration rule timers and the heartbeat monitoring).      *)
(*                                                                          *)
(* A JavaScript string is modelled as a sequence of one-character strings,  *)
(* so that indexOf, substring, trim and the regular expressions of the      *)
(* source are computed character by character.  null is Null for string     *)
(* valued fields and NullNum for number valued fields; a property that was  *)
(* never assigned (undefined) is Undefined / UndefinedNum.                  *)
(***************************************************************************)
EXTENDS Integers, Sequences, FiniteSets, TLC

VARIABLES
  pc,          \* "parse" / "lookup" / "decode": parseSyslogMessage / getZoneName /
               \* parseCID is about to be called; "parsed" / "named" / "decoded":
               \* it has returned; "listening": the listener's socket is bound
  raw,         \* argument raw of parseSyslogMessage; in the listener, the text
               \* of the last datagram
  zones,       \* argument zones (the zone directory), possibly null
  zoneNumber,  \* argument zoneNumber of getZoneName (a number or a string)
  result,      \* the record returned by parseSyslogMessage
  name,        \* the string returned by getZoneName
  cidArg,      \* argument cidStr of parseCID
  decoded,     \* the value returned by parseCID
  config,      \* the listener's resolved options (DRY_RUN, EMAIL_ON_OPEN, ...)
  rules,       \* the alert rules loaded from rules.json
  zoneOpenTimers,      \* "zone:ruleIndex" -> id returned by setTimeout
  zoneOpenTimes,       \* zone -> time of the Zone Open
  zoneRepeatCounts,    \* "zone:ruleIndex" -> number of repeat alerts sent
  lastMessageTime,     \* time of the last datagram
  heartbeatAlertSent,  \* the heartbeat alert was sent since the last datagram
  timers,      \* the event loop's pending timeouts, each with its callback's closure
  tasks,       \* the async functions suspended at an await on a request in flight
  logFile,     \* the lines appended to the log file (their set)
  requests,    \* the outbound requests issued so far (their set)
  exit,        \* "running", or why the process ended
  now,         \* Date.now(), in minutes
  received,    \* the number of datagrams received
  fired,       \* the number of timeouts that fired
  nextId       \* the id setTimeout returns next

\* the state of the parser's callers, and the state of the listener
pvars == <<pc, raw, zones, zoneNumber, result, name, cidArg, decoded>>
lvars == <<config, rules, zoneOpenTimers, zoneOpenTimes, zoneRepeatCounts,
           lastMessageTime, heartbeatAlertSent, timers, tasks, logFile,
           requests, exit, now, received, fired, nextId>>
vars == <<pvars, lvars>>

----------------------------------------------------------------------------
(* JavaScript values *)

Null == <<"null">>
Undefined == <<"undefined">>
TypeError == <<"TypeError">>
NullNum == -1
UndefinedNum == -2

Num(n) == [t |-> "number", v |-> n]
Str(s) == [t |-> "string", v |-> s]

----------------------------------------------------------------------------
(* Characters *)

UpperChars == <<"A","B","C","D","E","F","G","H","I","J","K","L","M","N","O","P","Q","R","S","T","U","V","W","X","Y","Z">>
LowerChars == <<"a","b","c","d","e","f","g","h","i","j","k","l","m","n","o","p","q","r","s","t","u","v","w","x","y","z">>
DigitChars == <<"0","1","2","3","4","5","6","7","8","9">>

\* the lower case letter of each upper case letter
LowerOf ==
  [c \in {UpperChars[i] : i \in 1..26} |->
     LowerChars[CHOOSE i \in 1..26 : UpperChars[i] = c]]

\* String.prototype.toLowerCase on one ASCII character
ToLowerChar(c) == IF c \in DOMAIN LowerOf THEN LowerOf[c] ELSE c

ToLowerCase(s) == [i \in 1..Len(s) |-> ToLowerChar(s[i])]

\* the regular expression class \s and the characters removed by trim()
IsSpace(c) == c \in {" ", "\t", "\n", "\r"}

\* the value of each decimal digit
ValueOf ==
  [c \in {DigitChars[i] : i \in 1..10} |->
     (CHOOSE i \in 1..10 : DigitChars[i] = c) - 1]

\* the regular expression class \d
IsDigit(c) == c \in DOMAIN ValueOf

DigitVal(c) == ValueOf[c]

----------------------------------------------------------------------------
(* String primitives; positions are 1-based here, 0-based in the source *)

Min(S) == CHOOSE x \in S : \A y \in S : x <= y

\* s has p at position i, compared exactly
StartsWithAt(s, i, p) ==
  /\ i >= 1
  /\ i + Len(p) - 1 <= Len(s)
  /\ \A k \in 1..Len(p) : s[i + k - 1] = p[k]

\* s has p at position i, compared as the /i flag does (p is lower case)
StartsWithAtCI(s, i, p) ==
  /\ i >= 1
  /\ i + Len(p) - 1 <= Len(s)
  /\ \A k \in 1..Len(p) : ToLowerChar(s[i + k - 1]) = p[k]

\* String.prototype.indexOf: 0-based index of the first occurrence, or -1
IndexOf(s, p) ==
  LET hits == {i \in 1..Len(s) + 1 : StartsWithAt(s, i, p)}
  IN IF hits = {} THEN -1 ELSE Min(hits) - 1

\* String.prototype.substring(start) with a 0-based start
Substring(s, start) == SubSeq(s, start + 1, Len(s))

\* String.prototype.substring(start, end), 0-based, end exclusive, clamped
SubstringTo(s, start, end) ==
  SubSeq(s, start + 1, IF end > Len(s) THEN Len(s) ELSE end)

\* first position >= i of s that holds no white space (Len(s) + 1 if none)
SkipSpaces(s, i) ==
  Min({j \in i..Len(s) + 1 : j = Len(s) + 1 \/ ~IsSpace(s[j])})

\* first position >= i of s that holds no digit (Len(s) + 1 if none)
SkipDigits(s, i) ==
  Min({j \in i..Len(s) + 1 : j = Len(s) + 1 \/ ~IsDigit(s[j])})

\* String.prototype.trim
Trim(s) ==
  LET keep == {i \in 1..Len(s) : ~IsSpace(s[i])}
  IN IF keep = {} THEN <<>>
     ELSE SubSeq(s, Min(keep), CHOOSE i \in keep : \A j \in keep : j <= i)

\* /alarm/i.test(s) and its like: a case-insensitive substring test
ContainsCI(s, p) == \E i \in 1..Len(s) : StartsWithAtCI(s, i, p)

\* parseInt(s, 10) of a run of decimal digits
RECURSIVE ParseInt(_)
ParseInt(s) ==
  IF Len(s) = 0 THEN 0
  ELSE 10 * ParseInt(SubSeq(s, 1, Len(s) - 1)) + DigitVal(s[Len(s)])

\* String(n) of a non-negative integer: decimal, no leading zeros
RECURSIVE NumberToString(_)
NumberToString(n) ==
  IF n < 10 THEN <<DigitChars[n + 1]>>
  ELSE NumberToString(n \div 10) \o <<DigitChars[(n % 10) + 1]>>

\* String(v) of a number or a string
String(v) == IF v.t = "number" THEN NumberToString(v.v) ELSE v.v

----------------------------------------------------------------------------
(* parseCID *)

\* the Contact ID lookup table: 3-digit event code -> description
CID_EVENT_CODES ==
  (<<"1","0","0">> :> <<"M","e","d","i","c","a","l"," ","A","l","a","r","m">>) @@
  (<<"1","1","0">> :> <<"F","i","r","e"," ","A","l","a","r","m">>) @@
  (<<"1","1","5">> :> <<"F","i","r","e"," ","A","l","a","r","m"," ","(","p","u","l","l"," ","s","t","a","t","i","o","n",")">>) @@
  (<<"1","2","0">> :> <<"P","a","n","i","c"," ","A","l","a","r","m">>) @@
  (<<"1","2","1">> :> <<"D","u","r","e","s","s"," ","A","l","a","r","m">>) @@
  (<<"1","3","0">> :> <<"B","u","r","g","l","a","r","y"," ","A","l","a","r","m">>) @@
  (<<"1","3","1">> :> <<"P","e","r","i","m","e","t","e","r"," ","A","l","a","r","m">>) @@
  (<<"1","3","2">> :> <<"I","n","t","e","r","i","o","r"," ","A","l","a","r","m">>) @@
  (<<"1","3","4">> :> <<"E","n","t","r","y","/","E","x","i","t"," ","A","l","a","r","m">>) @@
  (<<"1","3","7">> :> <<"T","a","m","p","e","r"," ","A","l","a","r","m">>) @@
  (<<"1","4","0">> :> <<"G","e","n","e","r","a","l"," ","A","l","a","r","m">>) @@
  (<<"3","0","1">> :> <<"A","C"," ","P","o","w","e","r"," ","L","o","s","s">>) @@
  (<<"3","0","2">> :> <<"L","o","w"," ","B","a","t","t","e","r","y">>) @@
  (<<"3","0","5">> :> <<"S","y","s","t","e","m"," ","R","e","s","e","t">>) @@
  (<<"3","5","0">> :> <<"C","o","m","m","u","n","i","c","a","t","i","o","n"," ","F","a","i","l","u","r","e">>) @@
  (<<"3","7","3">> :> <<"F","i","r","e"," ","T","r","o","u","b","l","e">>) @@
  (<<"3","8","0">> :> <<"S","e","n","s","o","r"," ","T","r","o","u","b","l","e">>) @@
  (<<"3","8","1">> :> <<"L","o","s","s"," ","o","f"," ","S","u","p","e","r","v","i","s","i","o","n">>) @@
  (<<"3","8","3">> :> <<"S","e","n","s","o","r"," ","T","a","m","p","e","r">>) @@
  (<<"4","0","0">> :> <<"O","p","e","n","/","C","l","o","s","e">>) @@
  (<<"4","0","1">> :> <<"O","p","e","n","/","C","l","o","s","e"," ","b","y"," ","U","s","e","r">>) @@
  (<<"4","0","3">> :> <<"O","p","e","n","/","C","l","o","s","e"," ","(","a","u","t","o",")">>) @@
  (<<"4","0","7">> :> <<"R","e","m","o","t","e"," ","A","r","m","/","D","i","s","a","r","m">>) @@
  (<<"4","0","8">> :> <<"Q","u","i","c","k"," ","A","r","m">>) @@
  (<<"4","0","9">> :> <<"K","e","y","s","w","i","t","c","h"," ","A","r","m","/","D","i","s","a","r","m">>) @@
  (<<"4","4","1">> :> <<"A","r","m","e","d"," ","S","t","a","y","/","D","i","s","a","r","m","e","d">>) @@
  (<<"4","4","2">> :> <<"A","r","m","e","d"," ","A","w","a","y","/","D","i","s","a","r","m","e","d">>) @@
  (<<"4","4","3">> :> <<"A","r","m","e","d"," ","N","i","g","h","t","/","D","i","s","a","r","m","e","d">>) @@
  (<<"6","0","1">> :> <<"M","a","n","u","a","l"," ","T","e","s","t">>) @@
  (<<"6","0","2">> :> <<"P","e","r","i","o","d","i","c"," ","T","e","s","t">>) @@
  (<<"6","1","6">> :> <<"S","e","r","v","i","c","e"," ","R","e","q","u","e","s","t">>)

\* the event codes of the arm/disarm family
ArmCodes ==
  {<<"4","0","0">>, <<"4","0","1">>, <<"4","0","3">>, <<"4","0","7">>, <<"4","0","8">>, <<"4","0","9">>, <<"4","4","1">>, <<"4","4","2">>, <<"4","4","3">>}

\* the value parseCID returns for an invalid string
NullCid ==
  [isNull |-> TRUE, qualifier |-> Null, eventCode |-> Null, event |-> Null,
   partition |-> NullNum, zoneOrUser |-> NullNum, description |-> Null]

\* the length test with the bound one too small
CidInvalidBelow8(cidStr) ==
  cidStr = Null \/ Len(cidStr) = 0 \/ Len(cidStr) < 8

\* !cidStr || cidStr.length < 9
CidInvalid(cidStr) ==
  cidStr = Null \/ Len(cidStr) = 0 \/ Len(cidStr) < 9

\* the partition read one digit too far to the right
CidPartitionShifted(cidStr) == ParseInt(SubstringTo(cidStr, 5, 7))

\* parseInt(cidStr.substring(4, 6), 10)
CidPartition(cidStr) == ParseInt(SubstringTo(cidStr, 4, 6))

\* parseInt(cidStr.substring(6, 9), 10)
CidZoneOrUser(cidStr) == ParseInt(SubstringTo(cidStr, 6, 9))

\* codeInfo || `CID ${eventCode}`
CidFallback(eventCode) ==
  IF eventCode \in DOMAIN CID_EVENT_CODES THEN CID_EVENT_CODES[eventCode]
  ELSE <<"C","I","D"," ">> \o eventCode

\* the event name with the meanings of qualifiers 1 and 3 exchanged
CidEventSwapped(qualifier, eventCode) ==
  IF eventCode \in ArmCodes THEN
    IF qualifier = <<"3">> THEN <<"D","i","s","a","r","m","e","d">>
    ELSE IF qualifier = <<"1">> THEN
      IF eventCode = <<"4","4","1">> THEN <<"A","r","m","e","d"," ","S","t","a","y">>
      ELSE IF eventCode = <<"4","4","2">> THEN <<"A","r","m","e","d"," ","A","w","a","y">>
      ELSE IF eventCode = <<"4","4","3">> THEN <<"A","r","m","e","d"," ","N","i","g","h","t">>
      ELSE <<"A","r","m","e","d">>
    ELSE CidFallback(eventCode)
  ELSE IF ParseInt(eventCode) >= 100 /\ ParseInt(eventCode) < 200 THEN <<"A","l","a","r","m">>
  ELSE CidFallback(eventCode)

\* the event name with 'Alarm' given to the alarm codes of the table only
CidEventTableAlarms(qualifier, eventCode) ==
  IF eventCode \in ArmCodes THEN
    IF qualifier = <<"1">> THEN <<"D","i","s","a","r","m","e","d">>
    ELSE IF qualifier = <<"3">> THEN
      IF eventCode = <<"4","4","1">> THEN <<"A","r","m","e","d"," ","S","t","a","y">>
      ELSE IF eventCode = <<"4","4","2">> THEN <<"A","r","m","e","d"," ","A","w","a","y">>
      ELSE IF eventCode = <<"4","4","3">> THEN <<"A","r","m","e","d"," ","N","i","g","h","t">>
      ELSE <<"A","r","m","e","d">>
    ELSE CidFallback(eventCode)
  ELSE IF /\ eventCode \in DOMAIN CID_EVENT_CODES
          /\ ParseInt(eventCode) >= 100 /\ ParseInt(eventCode) < 200 THEN <<"A","l","a","r","m">>
  ELSE CidFallback(eventCode)

\* the friendly event name of a qualifier and an event code
CidEvent(qualifier, eventCode) ==
  LET isArm   == eventCode \in ArmCodes
      isAlarm == ParseInt(eventCode) >= 100 /\ ParseInt(eventCode) < 200
  IN IF isArm THEN
       IF qualifier = <<"1">> THEN <<"D","i","s","a","r","m","e","d">>
       ELSE IF qualifier = <<"3">> THEN
         IF eventCode = <<"4","4","1">> THEN <<"A","r","m","e","d"," ","S","t","a","y">>
         ELSE IF eventCode = <<"4","4","2">> THEN <<"A","r","m","e","d"," ","A","w","a","y">>
         ELSE IF eventCode = <<"4","4","3">> THEN <<"A","r","m","e","d"," ","N","i","g","h","t">>
         ELSE <<"A","r","m","e","d">>
       ELSE CidFallback(eventCode)
     ELSE IF isAlarm THEN <<"A","l","a","r","m">>
     ELSE CidFallback(eventCode)

\* parseCID(cidStr), cidStr a string of decimal digits or null
parseCID(cidStr) ==
  IF CidInvalid(cidStr) THEN NullCid
  ELSE
    LET qualifier == SubstringTo(cidStr, 0, 1)
        eventCode == SubstringTo(cidStr, 1, 4)
    IN [isNull |-> FALSE, qualifier |-> qualifier, eventCode |-> eventCode,
        event |-> CidEvent(qualifier, eventCode),
        partition |-> CidPartition(cidStr),
        zoneOrUser |-> CidZoneOrUser(cidStr),
        description |-> IF eventCode \in DOMAIN CID_EVENT_CODES
                          THEN CID_EVENT_CODES[eventCode]
                          ELSE <<"U","n","k","n","o","w","n"," ","(">> \o eventCode \o <<")">>]

----------------------------------------------------------------------------
(* getZoneName *)

\* A zone directory: a JSON object from key strings to names, or null.
Directory(entries) == [isNull |-> FALSE, entries |-> entries]
NullZones == [isNull |-> TRUE, entries |-> <<>>]
EmptyZones == Directory(<<>>)

\* the test `key in zones` in place of the truthiness of zones[key]
HasNameAnyValue(zs, key) == key \in DOMAIN zs.entries

\* zones[key] is truthy: the key is an own property and its name is not ''
HasName(zs, key) ==
  key \in DOMAIN zs.entries /\ zs.entries[key] # <<>>

\* getZoneName(zones, zoneNumber); reading a property of null throws
getZoneName(zs, zn) ==
  LET key == String(zn)
  IN IF zs.isNull THEN TypeError
     ELSE IF HasName(zs, key) THEN zs.entries[key]
     ELSE <<"Z","o","n","e"," ">> \o key

----------------------------------------------------------------------------
(* parseSyslogMessage: header stripping *)

Markers == <<<<"E","N","V","I","S","A","L","I","N","K">>, <<"e","n","v","i","s","a","l","i","n","k">>, <<"E","V","L","4">>, <<"e","v","l","4">>>>

\* content.replace(/^[\[:\]\s]+/, '')
StripLeadingPunct(s) ==
  LET keep == {i \in 1..Len(s) + 1 :
                 i = Len(s) + 1 \/ ~(s[i] \in {"[", ":", "]"} \/ IsSpace(s[i]))}
  IN SubSeq(s, Min(keep), Len(s))

\* the content taken after the first occurrence of one marker
AfterMarker(r, marker) ==
  Trim(StripLeadingPunct(Trim(Substring(r, IndexOf(r, marker) + Len(marker)))))

\* the marker whose first occurrence is leftmost in r (0 if none occurs)
FirstMarkerInText(r) ==
  LET found == {m \in 1..Len(Markers) : IndexOf(r, Markers[m]) >= 0}
  IN IF found = {} THEN 0
     ELSE CHOOSE m \in found :
            \A k \in found : IndexOf(r, Markers[m]) <= IndexOf(r, Markers[k])

\* the marker the for loop stops at: the first of Markers, in list order,
\* that occurs in r (0 if none occurs)
FirstMarker(r) ==
  LET found == {m \in 1..Len(Markers) : IndexOf(r, Markers[m]) >= 0}
  IN IF found = {} THEN 0 ELSE Min(found)

\* header stripping that does not trim what follows "]: "
StripHeaderNoTrim(r) ==
  LET bracketIdx == IndexOf(r, <<"]",":"," ">>)
  IN IF bracketIdx >= 0 THEN Substring(r, bracketIdx + 3)
     ELSE IF FirstMarker(r) = 0 THEN r
     ELSE AfterMarker(r, Markers[FirstMarker(r)])

\* header stripping that also trims a message without a header
StripHeaderTrimAll(r) ==
  LET bracketIdx == IndexOf(r, <<"]",":"," ">>)
  IN IF bracketIdx >= 0 THEN Trim(Substring(r, bracketIdx + 3))
     ELSE IF FirstMarker(r) = 0 THEN Trim(r)
     ELSE AfterMarker(r, Markers[FirstMarker(r)])

\* the variable content once the header is stripped
StripHeader(r) ==
  LET bracketIdx == IndexOf(r, <<"]",":"," ">>)
  IN IF bracketIdx >= 0 THEN Trim(Substring(r, bracketIdx + 3))
     ELSE IF FirstMarker(r) = 0 THEN r
     ELSE AfterMarker(r, Markers[FirstMarker(r)])

----------------------------------------------------------------------------
(* parseSyslogMessage: the matchers *)

\* the alternatives of the zone pattern's action group, lower case
ActionWords ==
  {<<"o","p","e","n">>, <<"o","p","e","n","e","d">>, <<"c","l","o","s","e">>, <<"c","l","o","s","e","d">>, <<"a","l","a","r","m">>, <<"t","r","o","u","b","l","e">>,
   <<"t","a","m","p","e","r">>, <<"r","e","s","t","o","r","e">>, <<"r","e","s","t","o","r","e","d">>}

\* the action word w of the zone pattern matches at position j of s and is
\* followed by ':', optional white space and at least one digit
ActionAt(s, j, w) ==
  /\ StartsWithAtCI(s, j, w \o <<":">>)
  /\ LET m == SkipSpaces(s, j + Len(w) + 1) IN m <= Len(s) /\ IsDigit(s[m])

\* /Zone\s+(Open(?:ed)?|Close[d]?|Alarm|Trouble|Tamper|Restore[d]?):\s*(\d+)/i
\* matches s starting at position i
ZoneMatchAt(s, i) ==
  /\ StartsWithAtCI(s, i, <<"z","o","n","e">>)
  /\ LET j == SkipSpaces(s, i + 4)
     IN j > i + 4 /\ \E w \in ActionWords : ActionAt(s, j, w)

NoMatch == [found |-> FALSE, action |-> Null, digits |-> Null]

\* content.match(zone pattern): the leftmost match and its two groups
zoneMatch(s) ==
  LET hits == {i \in 1..Len(s) : ZoneMatchAt(s, i)}
  IN IF hits = {} THEN NoMatch
     ELSE LET i == Min(hits)
              j == SkipSpaces(s, i + 4)
              w == CHOOSE w \in ActionWords : ActionAt(s, j, w)
              m == SkipSpaces(s, j + Len(w) + 1)
          IN [found |-> TRUE,
              action |-> SubSeq(s, j, j + Len(w) - 1),
              digits |-> SubSeq(s, m, SkipDigits(s, m) - 1)]

\* a.replace(/<suffix>$/i, repl) for a two-character suffix
ReplaceSuffixCI(a, suffix, repl) ==
  IF Len(a) >= 2 /\ StartsWithAtCI(a, Len(a) - 1, suffix)
    THEN SubSeq(a, 1, Len(a) - 2) \o repl
    ELSE a

\* the normalisation of the matched action word
NormalizeAction(matched) ==
  LET action == ReplaceSuffixCI(ReplaceSuffixCI(matched, <<"e","d">>, <<"e">>), <<"e","e">>, <<"e">>)
  IN IF ToLowerCase(action) = <<"o","p","e","n","e">> THEN <<"O","p","e","n">> ELSE action

\* the text tests with the arm/disarm tests in front of the alarm test
AlarmArmEventArmFirst(content) ==
  IF ContainsCI(content, <<"a","r","m">>) THEN
    IF ContainsCI(content, <<"d","i","s","a","r","m">>) THEN <<"D","i","s","a","r","m","e","d">>
    ELSE IF ContainsCI(content, <<"s","t","a","y">>) THEN <<"A","r","m","e","d"," ","S","t","a","y">>
    ELSE IF ContainsCI(content, <<"a","w","a","y">>) THEN <<"A","r","m","e","d"," ","A","w","a","y">>
    ELSE IF ContainsCI(content, <<"n","i","g","h","t">>) \/ ContainsCI(content, <<"i","n","s","t","a","n","t">>)
      THEN <<"A","r","m","e","d"," ","N","i","g","h","t">>
    ELSE IF ContainsCI(content, <<"a","l","a","r","m">>) THEN <<"A","l","a","r","m">>
    ELSE <<"A","r","m","e","d">>
  ELSE Null

\* the text tests with the away test in front of the stay test
AlarmArmEventAwayFirst(content) ==
  IF ContainsCI(content, <<"a","l","a","r","m">>) THEN <<"A","l","a","r","m">>
  ELSE IF ContainsCI(content, <<"a","r","m">>) THEN
    IF ContainsCI(content, <<"d","i","s","a","r","m">>) THEN <<"D","i","s","a","r","m","e","d">>
    ELSE IF ContainsCI(content, <<"a","w","a","y">>) THEN <<"A","r","m","e","d"," ","A","w","a","y">>
    ELSE IF ContainsCI(content, <<"s","t","a","y">>) THEN <<"A","r","m","e","d"," ","S","t","a","y">>
    ELSE IF ContainsCI(content, <<"n","i","g","h","t">>) \/ ContainsCI(content, <<"i","n","s","t","a","n","t">>)
      THEN <<"A","r","m","e","d"," ","N","i","g","h","t">>
    ELSE <<"A","r","m","e","d">>
  ELSE Null

\* the alarm and arm/disarm text tests; Null when neither applies
AlarmArmEvent(content) ==
  IF ContainsCI(content, <<"a","l","a","r","m">>) THEN <<"A","l","a","r","m">>
  ELSE IF ContainsCI(content, <<"a","r","m">>) THEN
    IF ContainsCI(content, <<"d","i","s","a","r","m">>) THEN <<"D","i","s","a","r","m","e","d">>
    ELSE IF ContainsCI(content, <<"s","t","a","y">>) THEN <<"A","r","m","e","d"," ","S","t","a","y">>
    ELSE IF ContainsCI(content, <<"a","w","a","y">>) THEN <<"A","r","m","e","d"," ","A","w","a","y">>
    ELSE IF ContainsCI(content, <<"n","i","g","h","t">>) \/ ContainsCI(content, <<"i","n","s","t","a","n","t">>)
      THEN <<"A","r","m","e","d"," ","N","i","g","h","t">>
    ELSE <<"A","r","m","e","d">>
  ELSE Null

\* /CID\s+Event:\s*(\d{9,10})/i matches s starting at position i
CidMatchAt(s, i) ==
  /\ StartsWithAtCI(s, i, <<"c","i","d">>)
  /\ LET j == SkipSpaces(s, i + 3)
     IN /\ j > i + 3
        /\ StartsWithAtCI(s, j, <<"e","v","e","n","t",":">>)
        /\ LET m == SkipSpaces(s, j + 6) IN SkipDigits(s, m) - m >= 9

\* the match with the whole run of digits as its group
cidMatchWholeRun(s) ==
  LET hits == {i \in 1..Len(s) : CidMatchAt(s, i)}
  IN IF hits = {} THEN [found |-> FALSE, digits |-> Null]
     ELSE LET i == Min(hits)
              m == SkipSpaces(s, SkipSpaces(s, i + 3) + 6)
              n == SkipDigits(s, m) - m
          IN [found |-> TRUE, digits |-> SubSeq(s, m, m + n - 1)]

\* content.match(CID pattern): the leftmost match and its group (9 or 10 digits)
cidMatch(s) ==
  LET hits == {i \in 1..Len(s) : CidMatchAt(s, i)}
  IN IF hits = {} THEN [found |-> FALSE, digits |-> Null]
     ELSE LET i == Min(hits)
              m == SkipSpaces(s, SkipSpaces(s, i + 3) + 6)
              n == SkipDigits(s, m) - m
          IN [found |-> TRUE,
              digits |-> SubSeq(s, m, m + (IF n > 10 THEN 10 ELSE n) - 1)]

----------------------------------------------------------------------------
(* parseSyslogMessage *)

\* DefaultZones without the default: a null directory is passed on as it is
DefaultZonesUnguarded(zs) == zs

\* zones = zones || {}
DefaultZones(zs) == IF zs.isNull THEN EmptyZones ELSE zs

\* the annotation with the partition clause written for partition 0 too
CidMessageAllClauses(content, cid) ==
  LET userStr == IF cid.zoneOrUser # 0
                   THEN <<","," ","u","s","e","r"," ">> \o NumberToString(cid.zoneOrUser) ELSE <<>>
      partStr == <<"p","a","r","t","i","t","i","o","n"," ">> \o NumberToString(cid.partition)
  IN content \o <<" ","(">> \o cid.description
       \o (IF partStr # <<>> THEN <<","," ">> \o partStr ELSE <<>>)
       \o userStr \o <<")">>

\* the message of a decoded CID event
CidMessage(content, cid) ==
  LET userStr == IF cid.zoneOrUser # 0
                   THEN <<","," ","u","s","e","r"," ">> \o NumberToString(cid.zoneOrUser) ELSE <<>>
      partStr == IF cid.partition # 0
                   THEN <<"p","a","r","t","i","t","i","o","n"," ">> \o NumberToString(cid.partition) ELSE <<>>
  IN content \o <<" ","(">> \o cid.description
       \o (IF partStr # <<>> THEN <<","," ">> \o partStr ELSE <<>>)
       \o userStr \o <<")">>

\* the chain with the Contact ID decode tried before the text matcher
MatcherCidFirst(content) ==
  IF zoneMatch(content).found THEN "zone"
  ELSE IF cidMatch(content).found /\ ~parseCID(cidMatch(content).digits).isNull
    THEN "cid"
  ELSE IF AlarmArmEvent(content) # Null THEN "text"
  ELSE "other"

\* the chain with the alarm/arm text tests moved in front of the zone pattern
MatcherTextFirst(content) ==
  IF AlarmArmEvent(content) # Null THEN "text"
  ELSE IF zoneMatch(content).found THEN "zone"
  ELSE IF cidMatch(content).found /\ ~parseCID(cidMatch(content).digits).isNull
    THEN "cid"
  ELSE "other"

\* the chain of matchers with its early returns: which one produces the
\* record for this content
Matcher(content) ==
  IF zoneMatch(content).found THEN "zone"
  ELSE IF AlarmArmEvent(content) # Null THEN "text"
  ELSE IF cidMatch(content).found /\ ~parseCID(cidMatch(content).digits).isNull
    THEN "cid"
  ELSE "other"

\* parseSyslogMessage(raw, zones).  The record's timestamp (new Date()) is
\* left out: no other field depends on it.  threw is TRUE when the call
\* ended in an exception instead of returning the record.
parseSyslogMessage(r, zs0) ==
  LET zs      == DefaultZones(zs0)
      content == StripHeader(r)
      init    == [threw |-> FALSE, raw |-> Trim(r), event |-> Null,
                  zone |-> NullNum, zoneName |-> Null, message |-> content,
                  partition |-> UndefinedNum, user |-> UndefinedNum]
      m       == Matcher(content)
  IN IF m = "zone" THEN
       LET zm   == zoneMatch(content)
           zone == ParseInt(zm.digits)
           zn   == getZoneName(zs, Num(zone))
       IN IF zn = TypeError
            THEN [init EXCEPT !.threw = TRUE,
                              !.event = <<"Z","o","n","e"," ">> \o NormalizeAction(zm.action),
                              !.zone = zone]
            ELSE [init EXCEPT !.event = <<"Z","o","n","e"," ">> \o NormalizeAction(zm.action),
                              !.zone = zone, !.zoneName = zn]
     ELSE IF m = "text" THEN [init EXCEPT !.event = AlarmArmEvent(content)]
     ELSE IF m = "cid" THEN
       LET cid == parseCID(cidMatch(content).digits)
       IN [init EXCEPT !.event = cid.event, !.partition = cid.partition,
                       !.user = cid.zoneOrUser,
                       !.message = CidMessage(content, cid)]
     ELSE [init EXCEPT !.event = <<"O","t","h","e","r">>]

----------------------------------------------------------------------------
(* The calls that are checked *)

MaxZone == 10    \* zone numbers 0..MaxZone appear in messages and lookups
MaxPad == 2      \* a zone number is written with 0..MaxPad leading zeros
MaxWords == 2    \* a free-text message body has 0..MaxWords words

RECURSIVE Zeros(_)
Zeros(n) == IF n = 0 THEN <<>> ELSE <<"0">> \o Zeros(n - 1)

\* the decimal forms of the zone numbers, with and without leading zeros
ZoneDigits == {Zeros(p) \o NumberToString(n) : p \in 0..MaxPad, n \in 0..MaxZone}

\* zone directories as zones.json may hold them, and the null directory
TestZones ==
  Directory((<<"3">> :> <<"G","a","r","a","g","e"," ","D","o","o","r">>) @@ (<<"9">> :> <<"M","a","s","t","e","r"," ","B","e","d","r","o","o","m"," ","W","i","n","d","o","w">>)
            @@ (<<"1","0">> :> <<"H","a","l","l">>))
PaddedZones ==
  Directory((<<"0","3">> :> <<"G","a","r","a","g","e"," ","D","o","o","r">>) @@ (<<"0","9">> :> <<"M","a","s","t","e","r"," ","B","e","d","r","o","o","m"," ","W","i","n","d","o","w">>)
            @@ (<<"1">> :> <<"F","r","o","n","t"," ","D","o","o","r">>))
UnnamedZones ==
  Directory((<<"3">> :> <<>>) @@ (<<"9">> :> <<"M","a","s","t","e","r"," ","B","e","d","r","o","o","m"," ","W","i","n","d","o","w">>))

Directories == {NullZones, EmptyZones, TestZones, PaddedZones, UnnamedZones}

\* spellings of the zone pattern's keyword and action word
ZoneKeywords == {<<"Z","o","n","e">>, <<"z","o","n","e">>}
ZoneActions ==
  {<<"O","p","e","n">>, <<"O","p","e","n","e","d">>, <<"C","l","o","s","e">>, <<"C","l","o","s","e","d">>, <<"A","l","a","r","m">>, <<"T","r","o","u","b","l","e">>,
   <<"T","a","m","p","e","r">>, <<"R","e","s","t","o","r","e">>, <<"R","e","s","t","o","r","e","d">>,
   <<"o","p","e","n">>, <<"c","l","o","s","e","d">>, <<"O","P","E","N">>, <<"O","P","E","N","E","D">>, <<"C","L","O","S","E","D">>, <<"R","E","S","T","O","R","E","D">>}

\* zone messages: "<keyword> <action>: <digits>"
ZoneInputs ==
  {k \o <<" ">> \o a \o <<":"," ">> \o d :
     k \in ZoneKeywords, a \in ZoneActions, d \in ZoneDigits}

\* headers: syslog framing ending in "]: ", vendor markers, or nothing
Headers ==
  {<<>>,
   <<"<","1","6","6",">","E","N","V","I","S","A","L","I","N","K","[","0","0","1","C","2","A","0","2","B","B","1","F","]",":"," "," ">>,
   <<"a","]",":"," ","b","]",":"," ">>,
   <<"E","N","V","I","S","A","L","I","N","K",":"," ">>,
   <<"E","V","L","4",":","[">>,
   <<"e","v","l","4"," ","E","N","V","I","S","A","L","I","N","K"," ">>}

\* the words of a free-text message body
Words ==
  {<<" ">>, <<"x">>, <<"Z","o","n","e"," ","O","p","e","n",":"," ","0","0","3">>, <<"z","o","n","e"," ","c","l","o","s","e","d",":","9"," ">>, <<"Z","o","n","e"," ","A","l","a","r","m",":"," ","0","0","1">>,
   <<"A","l","a","r","m"," ">>, <<" ","D","i","s","a","r","m","e","d">>, <<"a","r","m","e","d"," ">>, <<"s","t","a","y">>,
   <<"C","I","D"," ","E","v","e","n","t",":"," ","3","4","4","1","0","1","0","0","2","0">>, <<"C","I","D"," ","E","v","e","n","t",":"," ","1","1","3","0","0","1">>, <<"]",":"," ">>, <<"E","V","L","4">>}

RECURSIVE Concat(_)
Concat(ws) == IF Len(ws) = 0 THEN <<>> ELSE Head(ws) \o Concat(Tail(ws))

Bodies == {Concat(ws) : ws \in UNION {[1..n -> Words] : n \in 0..MaxWords}}

TextInputs == {h \o b : h \in Headers, b \in Bodies}

\* identifiers passed to getZoneName: numbers, and decimal strings
Identifiers ==
  {Num(n) : n \in 0..MaxZone} \cup {Str(d) : d \in ZoneDigits}

NoResult ==
  [threw |-> FALSE, raw |-> Null, event |-> Null, zone |-> NullNum,
   zoneName |-> Null, message |-> Null,
   partition |-> UndefinedNum, user |-> UndefinedNum]

----------------------------------------------------------------------------
(* Specification: one call of parseSyslogMessage or of getZoneName *)

\* the listener's options with nothing configured
NoConfig ==
  [DRY_RUN |-> FALSE, DEBUG |-> FALSE, MAILGUN |-> FALSE, EMAIL |-> FALSE,
   GOOGLE_SHEETS_WEBHOOK |-> FALSE, NTFY_TOPIC |-> FALSE,
   EMAIL_ON_OPEN |-> FALSE, EMAIL_ON_ALARM |-> FALSE, HEARTBEAT_MINUTES |-> 0]

\* the listener's module state as it is loaded, no datagram received
Loaded ==
  /\ zoneOpenTimers = <<>>
  /\ zoneOpenTimes = <<>>
  /\ zoneRepeatCounts = <<>>
  /\ lastMessageTime = 0
  /\ heartbeatAlertSent = FALSE
  /\ timers = {}
  /\ tasks = {}
  /\ logFile = {}
  /\ requests = {}
  /\ exit = "running"
  /\ now = 0
  /\ received = 0
  /\ fired = 0
  /\ nextId = 1

\* parser.js used on its own: no listener
NotListening == config = NoConfig /\ rules = <<>> /\ Loaded

InitParse ==
  /\ NotListening
  /\ pc = "parse"
  /\ \/ raw \in ZoneInputs /\ zones \in Directories
     \/ raw \in TextInputs /\ zones = TestZones
  /\ zoneNumber = Num(0)
  /\ result = NoResult
  /\ name = Null
  /\ cidArg = Null
  /\ decoded = NullCid

InitLookup ==
  /\ NotListening
  /\ pc = "lookup"
  /\ raw = <<>>
  /\ zones \in Directories \ {NullZones}
  /\ zoneNumber \in Identifiers
  /\ result = NoResult
  /\ name = Null
  /\ cidArg = Null
  /\ decoded = NullCid

Init == InitParse \/ InitLookup

\* const parsed = parseSyslogMessage(raw, zones)
Parse ==
  /\ pc = "parse"
  /\ result' = parseSyslogMessage(raw, zones)
  /\ pc' = "parsed"
  /\ UNCHANGED <<raw, zones, zoneNumber, name, cidArg, decoded, lvars>>

\* getZoneName(zones, zoneNumber)
Lookup ==
  /\ pc = "lookup"
  /\ name' = getZoneName(zones, zoneNumber)
  /\ pc' = "named"
  /\ UNCHANGED <<raw, zones, zoneNumber, result, cidArg, decoded, lvars>>

Next == Parse \/ Lookup

Spec == Init /\ [][Next]_vars

TypeOK ==
  /\ pc \in {"parse", "lookup", "decode", "parsed", "named", "decoded", "listening"}
  /\ result.threw \in BOOLEAN

----------------------------------------------------------------------------
(* Specification: Contact ID reports, decoded by parseCID directly or met by
   parseSyslogMessage after "CID Event:" *)

\* largest partition and user multipliers of the Contact ID inputs
MaxPartition == 2
MaxUser == 2

\* n in decimal, padded with zeros on the left to w digits
Pad(n, w) == Zeros(w - Len(NumberToString(n))) \o NumberToString(n)

\* qualifier digits: 1 (opening), 3 (closing), 6 (another one)
CidQualifiers == {<<"1">>, <<"3">>, <<"6">>}

\* event codes: the arm family, alarm codes inside and outside the table,
\* other codes inside and outside the table
CidCodes ==
  ArmCodes \cup {<<"1","0","0">>, <<"1","3","0">>, <<"1","9","9">>, <<"2","0","0">>, <<"0","9","9">>, <<"3","0","1">>, <<"6","1","6">>, <<"9","9","9">>}

CidPartitions == {Pad(6 * p, 2) : p \in 0..MaxPartition}

CidUsers == {Pad(51 * u, 3) : u \in 0..MaxUser}

\* digits that follow the ninth one
CidTails == {<<>>, <<"0">>, <<"7">>, <<"7","5">>}

\* complete reports, of 9 digits or more
CidReports ==
  {q \o c \o p \o u \o t :
     q \in CidQualifiers, c \in CidCodes, p \in CidPartitions, u \in CidUsers,
     t \in CidTails}

\* reports cut short, of 0 to 8 digits
CidShortReports == {SubSeq(d, 1, n) : d \in CidReports, n \in 0..8}

\* arguments of parseCID
CidStrings == CidReports \cup CidShortReports \cup {Null}

\* what comes before the digits in a datagram
CidPrefixes ==
  {<<"C","I","D"," ","E","v","e","n","t",":"," ">>, <<"<","1","6","6",">","E","N","V","I","S","A","L","I","N","K","[","0","0","1","C","2","A","0","2","B","B","1","F","]",":"," "," ","C","I","D"," ","E","v","e","n","t",":"," ">>, <<"c","i","d"," "," ","e","v","e","n","t",":">>}

CidTexts == {k \o d : k \in CidPrefixes, d \in CidReports \cup CidShortReports}

InitCidText ==
  /\ NotListening
  /\ pc = "parse"
  /\ raw \in CidTexts
  /\ zones = TestZones
  /\ zoneNumber = Num(0)
  /\ result = NoResult
  /\ name = Null
  /\ cidArg = Null
  /\ decoded = NullCid

InitDecode ==
  /\ NotListening
  /\ pc = "decode"
  /\ raw = <<>>
  /\ zones = TestZones
  /\ zoneNumber = Num(0)
  /\ result = NoResult
  /\ name = Null
  /\ cidArg \in CidStrings
  /\ decoded = NullCid

InitCid == InitCidText \/ InitDecode

\* parseCID(cidStr)
Decode ==
  /\ pc = "decode"
  /\ decoded' = parseCID(cidArg)
  /\ pc' = "decoded"
  /\ UNCHANGED <<raw, zones, zoneNumber, result, name, cidArg, lvars>>

NextCid == Parse \/ Decode

SpecCid == InitCid /\ [][NextCid]_vars

----------------------------------------------------------------------------
(* Specification: arm and disarm messages as free text *)

\* an arm/disarm message has 0..MaxArmWords words
MaxArmWords == 3

\* the words of the arm/disarm tests in several letter cases, the alarm word,
\* a zone event and a word that means nothing
ArmWords ==
  {<<"A","r","m","e","d"," ">>, <<"S","y","s","t","e","m"," ","D","I","S","A","R","M","E","D"," ">>, <<"S","t","a","y"," ">>, <<"A","W","A","Y"," ">>, <<"n","i","g","h","t"," ">>,
   <<"I","n","s","t","a","n","t"," ">>, <<"a","l","a","r","m"," ">>, <<"Z","o","n","e"," ","O","p","e","n",":"," ","3"," ">>, <<"x"," ">>}

ArmTexts == {Concat(ws) : ws \in UNION {[1..n -> ArmWords] : n \in 0..MaxArmWords}}

InitArm ==
  /\ NotListening
  /\ pc = "parse"
  /\ raw \in ArmTexts
  /\ zones = TestZones
  /\ zoneNumber = Num(0)
  /\ result = NoResult
  /\ name = Null
  /\ cidArg = Null
  /\ decoded = NullCid

NextArm == Parse

SpecArm == InitArm /\ [][NextArm]_vars

----------------------------------------------------------------------------
(* The listener: objects used as maps, the log file, the outbound sinks *)

\* key in obj
Has(obj, key) == key \in DOMAIN obj

\* obj[key] = value
Put(obj, key, value) == (key :> value) @@ obj

\* delete obj[key], for every key of the set keys
Delete(obj, keys) ==
  IF DOMAIN obj \subseteq keys THEN <<>>
  ELSE [k \in DOMAIN obj \ keys |-> obj[k]]

\* the listener's mutable state as one record, handed from statement to
\* statement of a handler
Here ==
  [zoneOpenTimers |-> zoneOpenTimers, zoneOpenTimes |-> zoneOpenTimes,
   zoneRepeatCounts |-> zoneRepeatCounts, lastMessageTime |-> lastMessageTime,
   heartbeatAlertSent |-> heartbeatAlertSent, timers |-> timers, tasks |-> tasks,
   logFile |-> logFile, requests |-> requests, exit |-> exit, nextId |-> nextId]

\* the state a handler leaves behind
Becomes(s) ==
  /\ zoneOpenTimers' = s.zoneOpenTimers
  /\ zoneOpenTimes' = s.zoneOpenTimes
  /\ zoneRepeatCounts' = s.zoneRepeatCounts
  /\ lastMessageTime' = s.lastMessageTime
  /\ heartbeatAlertSent' = s.heartbeatAlertSent
  /\ timers' = s.timers
  /\ tasks' = s.tasks
  /\ logFile' = s.logFile
  /\ requests' = s.requests
  /\ exit' = s.exit
  /\ nextId' = s.nextId

\* the running call of an async function: the handler of datagram number n
\* (kind "message") or the callback of the rule timer of id timer (kind "timer")
MessageCall(n, parsed) ==
  [kind |-> "message", n |-> n, timer |-> 0, event |-> parsed.event, zone |-> parsed.zone,
   zoneKey |-> Null, ruleIndex |-> -1, repeatCount |-> 0]

TimerCall(t) ==
  [kind |-> "timer", n |-> 0, timer |-> t.id, event |-> Null, zone |-> NullNum,
   zoneKey |-> t.zoneKey, ruleIndex |-> t.ruleIndex, repeatCount |-> t.repeatCount]

\* the running call of the heartbeat interval's callback at its k-th firing
HeartbeatCall(k) ==
  [kind |-> "heartbeat", n |-> 0, timer |-> k, event |-> Null, zone |-> NullNum,
   zoneKey |-> Null, ruleIndex |-> -1, repeatCount |-> 0]

\* logToFile(message): the line is kept as its kind and the call that wrote
\* it, the file as the set of its lines
logToFile(s, kind, call) ==
  [s EXCEPT !.logFile = @ \cup {[kind |-> kind, call |-> call]}]

\* a request leaves for a sink
Request(s, sink, call) ==
  [s EXCEPT !.requests = @ \cup {[sink |-> sink, call |-> call]}]

\* the mailgun client exists
mg == ~config.DRY_RUN /\ config.MAILGUN

\* sendAlert up to its await: wait tells whether a request is in flight
sendAlert(s, call) ==
  IF config.DRY_RUN THEN [st |-> logToFile(s, "[DRY RUN] Would send email", call), wait |-> FALSE]
  ELSE IF ~mg
    THEN [st |-> IF config.DEBUG THEN logToFile(s, "Mailgun not configured", call) ELSE s,
          wait |-> FALSE]
  ELSE IF ~config.EMAIL THEN [st |-> logToFile(s, "Email skipped", call), wait |-> FALSE]
  ELSE [st |-> Request(s, "mailgun", call), wait |-> TRUE]

\* postToGoogleSheets up to its await
postToGoogleSheets(s, call) ==
  IF ~config.GOOGLE_SHEETS_WEBHOOK THEN [st |-> s, wait |-> FALSE]
  ELSE IF config.DRY_RUN
    THEN [st |-> logToFile(s, "[DRY RUN] Would post to Google Sheets", call), wait |-> FALSE]
  ELSE [st |-> Request(s, "sheets", call), wait |-> TRUE]

\* sendNtfy with the dry-run test left out
sendNtfyLive(s, call) ==
  IF ~config.NTFY_TOPIC THEN [st |-> s, wait |-> FALSE]
  ELSE [st |-> Request(s, "ntfy", call), wait |-> TRUE]

\* sendNtfy up to its await
sendNtfy(s, call) ==
  IF ~config.NTFY_TOPIC THEN [st |-> s, wait |-> FALSE]
  ELSE IF config.DRY_RUN
    THEN [st |-> logToFile(s, "[DRY RUN] Would send ntfy", call), wait |-> FALSE]
  ELSE [st |-> Request(s, "ntfy", call), wait |-> TRUE]

\* the async function call is suspended at its await named at
Suspend(s, call, at) ==
  [s EXCEPT !.tasks = @ \cup {[at |-> at, call |-> call]}]

\* how a request in flight can end: the response arrives ("ok"), the request
\* emits 'error' ("error"), and for the webhook the response is a redirect whose
\* follow-up https.get emits 'error' ("redirect error")
Outcomes(sink) ==
  IF sink = "sheets" THEN {"ok", "error", "redirect error"} ELSE {"ok", "error"}

\* the sink a suspended call waits for
SinkOf(at) ==
  CASE at = "postToGoogleSheets" -> "sheets"
    [] at \in {"alarm sendAlert", "open sendAlert", "rule sendAlert",
               "heartbeat sendAlert"} -> "mailgun"
    [] at \in {"rule sendNtfy", "heartbeat sendNtfy"} -> "ntfy"

\* the rest of a sink after its await: try / catch and the log lines
SinkReturns(s, sink, call, outcome) ==
  CASE sink = "mailgun" /\ outcome = "ok" -> logToFile(s, "Email sent", call)
    [] sink = "mailgun" /\ outcome = "error" -> logToFile(s, "Failed to send email", call)
    [] sink = "sheets" /\ outcome = "ok" ->
         IF config.DEBUG THEN logToFile(s, "Posted to Google Sheets", call) ELSE s
    [] sink = "sheets" /\ outcome = "error" ->
         logToFile(s, "Failed to post to Google Sheets", call)
    [] sink = "ntfy" /\ outcome = "ok" ->
         IF config.DEBUG THEN logToFile(s, "Sent ntfy", call) ELSE s
    [] sink = "ntfy" /\ outcome = "error" -> logToFile(s, "Failed to send ntfy", call)

----------------------------------------------------------------------------
(* The alert rules engine *)

\* `${zoneKey}:${ruleIndex}`
TimerKey(zoneKey, ruleIndex) == zoneKey \o <<":">> \o NumberToString(ruleIndex)

\* rules[ruleIndex], ruleIndex counted from 0
Rule(ruleIndex) == rules[ruleIndex + 1]

\* clearTimeout that leaves the timeout pending
clearTimeoutNothing(s, id) == s

\* clearTimeout(id): without effect when the timeout has fired or was cleared
clearTimeout(s, id) == [s EXCEPT !.timers = {t \in @ : t.id # id}]

\* startRuleTimer: setTimeout with the callback's closure, the handle kept in
\* zoneOpenTimers
startRuleTimer(s, zoneKey, ruleIndex, delayMs, repeatCount) ==
  [s EXCEPT !.timers = @ \cup {[id |-> s.nextId, zoneKey |-> zoneKey,
                                ruleIndex |-> ruleIndex, delayMs |-> delayMs,
                                repeatCount |-> repeatCount]},
            !.zoneOpenTimers = Put(@, TimerKey(zoneKey, ruleIndex), s.nextId),
            !.nextId = @ + 1]

\* ScheduleRepeat with the limit compared with the number of the alert just
\* sent instead of the next one
ScheduleRepeatOneMore(s, call) ==
  LET timerKey == TimerKey(call.zoneKey, call.ruleIndex)
      repeatIntervalMs == Rule(call.ruleIndex).repeatInterval * 60 * 1000
      nextRepeat == call.repeatCount + 1
      maxRepeats == Rule(call.ruleIndex).maxRepeats
  IN IF repeatIntervalMs > 0 /\ (maxRepeats = 0 \/ call.repeatCount <= maxRepeats)
       THEN LET s1 == [s EXCEPT !.zoneRepeatCounts = Put(@, timerKey, nextRepeat)]
                s2 == startRuleTimer(s1, call.zoneKey, call.ruleIndex,
                                     repeatIntervalMs, nextRepeat)
            IN IF config.DEBUG THEN logToFile(s2, "Repeat timer set", call) ELSE s2
       ELSE [s EXCEPT !.zoneOpenTimers = Delete(@, {timerKey}),
                      !.zoneRepeatCounts = Delete(@, {timerKey})]

\* the callback after its sends: schedule the repeat alert, or forget the timer
ScheduleRepeat(s, call) ==
  LET timerKey == TimerKey(call.zoneKey, call.ruleIndex)
      repeatIntervalMs == Rule(call.ruleIndex).repeatInterval * 60 * 1000
      nextRepeat == call.repeatCount + 1
      maxRepeats == Rule(call.ruleIndex).maxRepeats
  IN IF repeatIntervalMs > 0 /\ (maxRepeats = 0 \/ nextRepeat <= maxRepeats)
       THEN LET s1 == [s EXCEPT !.zoneRepeatCounts = Put(@, timerKey, nextRepeat)]
                s2 == startRuleTimer(s1, call.zoneKey, call.ruleIndex,
                                     repeatIntervalMs, nextRepeat)
            IN IF config.DEBUG THEN logToFile(s2, "Repeat timer set", call) ELSE s2
       ELSE [s EXCEPT !.zoneOpenTimers = Delete(@, {timerKey}),
                      !.zoneRepeatCounts = Delete(@, {timerKey})]

\* await sendNtfy(...) of the callback: r is what sendNtfy did up to its await
AwaitRuleNtfy(r, call) ==
  IF r.wait THEN Suspend(r.st, call, "rule sendNtfy") ELSE ScheduleRepeat(r.st, call)

\* the callback after its sendAlert
AfterRuleAlert(s, call) ==
  IF Rule(call.ruleIndex).action \in {"ntfy", "both"}
    THEN AwaitRuleNtfy(sendNtfy(s, call), call)
  ELSE ScheduleRepeat(s, call)

\* await sendAlert(...) of the callback
AwaitRuleAlert(r, call) ==
  IF r.wait THEN Suspend(r.st, call, "rule sendAlert") ELSE AfterRuleAlert(r.st, call)

\* the callback after its log line
AfterRuleLog(s, call) ==
  IF Rule(call.ruleIndex).action \in {"email", "both"}
    THEN AwaitRuleAlert(sendAlert(s, call), call)
  ELSE AfterRuleAlert(s, call)

\* the callback of a rule timer from its log line on
TimerCallback(s, call) == AfterRuleLog(logToFile(s, "Alert rule triggered", call), call)

\* the elements of a set of numbers in ascending order
RECURSIVE Ascending(_)
Ascending(S) ==
  IF S = {} THEN <<>> ELSE <<Min(S)>> \o Ascending(S \ {Min(S)})

\* the indices of the open_duration rules of zone zoneKey, in the order of rules
MatchingRules(zoneKey) ==
  Ascending({i \in 0..Len(rules) - 1 :
               /\ Rule(i).condition = "open_duration"
               /\ NumberToString(Rule(i).zone) = zoneKey})

\* the loop of evaluateRules over the matching rules of an opened zone
RECURSIVE OpenLoop(_, _, _)
OpenLoop(s, zoneKey, matching) ==
  IF Len(matching) = 0 THEN s
  ELSE
    LET ruleIndex == Head(matching)
        timerKey  == TimerKey(zoneKey, ruleIndex)
        delayMs   == (IF Rule(ruleIndex).minutes = 0 THEN 20
                      ELSE Rule(ruleIndex).minutes) * 60 * 1000
        s1 == IF Has(s.zoneOpenTimers, timerKey)
                THEN clearTimeout(s, s.zoneOpenTimers[timerKey]) ELSE s
        s2 == [s1 EXCEPT !.zoneRepeatCounts = Delete(@, {timerKey})]
        s3 == startRuleTimer(s2, zoneKey, ruleIndex, delayMs, 0)
        s4 == IF config.DEBUG
                THEN logToFile(s3, "Timer set", TimerCall(
                       [id |-> s2.nextId, zoneKey |-> zoneKey,
                        ruleIndex |-> ruleIndex, repeatCount |-> 0]))
              ELSE s3
    IN OpenLoop(s4, zoneKey, Tail(matching))

\* evaluateRules on 'Zone Close': every timer recorded for the zone is
\* cleared and forgotten, and the zone's open time is deleted
CloseZone(s, zoneKey, call) ==
  LET keys == {k \in DOMAIN s.zoneOpenTimers : StartsWithAt(k, 1, zoneKey \o <<":">>)}
      ids  == {s.zoneOpenTimers[k] : k \in keys}
      s1 == [s EXCEPT !.timers = {t \in @ : t.id \notin ids},
                      !.zoneOpenTimers = Delete(@, keys),
                      !.zoneRepeatCounts = Delete(@, keys),
                      !.zoneOpenTimes = Delete(@, {zoneKey})]
  IN IF config.DEBUG THEN logToFile(s1, "Timer(s) cleared", call) ELSE s1

\* evaluateRules: if (parsed.event === 'Zone Open')
OnZoneOpen(s, zoneKey, call) ==
  IF call.event = <<"Z","o","n","e"," ","O","p","e","n">>
    THEN OpenLoop([s EXCEPT !.zoneOpenTimes = Put(@, zoneKey, now)],
                  zoneKey, MatchingRules(zoneKey))
  ELSE s

\* evaluateRules: if (parsed.event === 'Zone Close')
OnZoneClose(s, zoneKey, call) ==
  IF call.event = <<"Z","o","n","e"," ","C","l","o","s","e">> THEN CloseZone(s, zoneKey, call) ELSE s

\* evaluateRules(parsed)
evaluateRules(s, call) ==
  IF Len(rules) = 0 \/ call.zone = NullNum THEN s
  ELSE OnZoneClose(OnZoneOpen(s, NumberToString(call.zone), call),
                   NumberToString(call.zone), call)

----------------------------------------------------------------------------
(* Heartbeat monitoring: the callback of setInterval, every minute *)

\* heartbeatAlertSent = true, after the two sends
AfterHeartbeatNtfy(s) == [s EXCEPT !.heartbeatAlertSent = TRUE]

\* await sendNtfy(...) of the check: r is what sendNtfy did up to its await
AwaitHeartbeatNtfy(r, call) ==
  IF r.wait THEN Suspend(r.st, call, "heartbeat sendNtfy") ELSE AfterHeartbeatNtfy(r.st)

\* the check after its sendAlert
AfterHeartbeatAlert(s, call) == AwaitHeartbeatNtfy(sendNtfy(s, call), call)

\* await sendAlert(...) of the check
AwaitHeartbeatAlert(r, call) ==
  IF r.wait THEN Suspend(r.st, call, "heartbeat sendAlert")
  ELSE AfterHeartbeatAlert(r.st, call)

\* the check at minute time: elapsed and threshold in milliseconds
HeartbeatCheck(s, call, time) ==
  IF /\ (time - s.lastMessageTime) * 60 * 1000 >= config.HEARTBEAT_MINUTES * 60 * 1000
     /\ ~s.heartbeatAlertSent
    THEN AwaitHeartbeatAlert(sendAlert(logToFile(s, "Heartbeat alert", call), call), call)
  ELSE s

----------------------------------------------------------------------------
(* The datagram handler, server.on('message') *)

\* await sendAlert(...) for an opened zone: r is what sendAlert did up to its await
AwaitOpenAlert(r, call) ==
  IF r.wait THEN Suspend(r.st, call, "open sendAlert") ELSE r.st

\* the handler after its await of sendAlert for an alarm
AfterAlarmAlert(s, call) ==
  IF config.EMAIL_ON_OPEN /\ call.event = <<"Z","o","n","e"," ","O","p","e","n">>
    THEN AwaitOpenAlert(sendAlert(s, call), call)
  ELSE s

\* await sendAlert(...) for an alarm
AwaitAlarmAlert(r, call) ==
  IF r.wait THEN Suspend(r.st, call, "alarm sendAlert") ELSE AfterAlarmAlert(r.st, call)

\* the handler after evaluateRules
AfterRules(s, call) ==
  IF config.EMAIL_ON_ALARM /\ call.event = <<"A","l","a","r","m">>
    THEN AwaitAlarmAlert(sendAlert(s, call), call)
  ELSE AfterAlarmAlert(s, call)

\* the handler after its await of postToGoogleSheets
AfterPost(s, call) == AfterRules(evaluateRules(s, call), call)

\* await postToGoogleSheets(parsed)
AwaitPost(r, call) ==
  IF r.wait THEN Suspend(r.st, call, "postToGoogleSheets") ELSE AfterPost(r.st, call)

\* the handler from the reset of the heartbeat tracker on
AfterParse(s, call) ==
  AwaitPost(postToGoogleSheets(
              logToFile([s EXCEPT !.lastMessageTime = now,
                                  !.heartbeatAlertSent = FALSE], "event", call),
              call),
            call)

\* the handler from its [RAW] line on
Handle(s, call) ==
  IF config.DEBUG THEN AfterParse(logToFile(s, "[RAW]", call), call)
  ELSE AfterParse(s, call)

\* the handler of datagram number n with text msg, up to its first await on a
\* request in flight
OnMessage(s, n, msg) == Handle(s, MessageCall(n, parseSyslogMessage(msg, zones)))

\* a suspended call goes on after its await
Continue(s, task) ==
  CASE task.at = "postToGoogleSheets" -> AfterPost(s, task.call)
    [] task.at = "alarm sendAlert" -> AfterAlarmAlert(s, task.call)
    [] task.at = "open sendAlert" -> s
    [] task.at = "rule sendAlert" -> AfterRuleAlert(s, task.call)
    [] task.at = "rule sendNtfy" -> ScheduleRepeat(s, task.call)
    [] task.at = "heartbeat sendAlert" -> AfterHeartbeatAlert(s, task.call)
    [] task.at = "heartbeat sendNtfy" -> AfterHeartbeatNtfy(s)

\* the process ends: its timers and suspended calls are gone
Exit(s, why) == [s EXCEPT !.exit = why, !.timers = {}, !.tasks = {}]

----------------------------------------------------------------------------
(* Specification: the listener receives datagrams, its timers fire, its
   requests end *)

\* bounds on the datagrams received and on the timeouts fired
MaxDatagrams == 2
MaxFirings == 2

\* option sets: every sink configured; the same without the webhook; the same
\* as a dry run with --debug; email only, on alarms; nothing configured
LiveConfig ==
  [DRY_RUN |-> FALSE, DEBUG |-> FALSE, MAILGUN |-> TRUE, EMAIL |-> TRUE,
   GOOGLE_SHEETS_WEBHOOK |-> TRUE, NTFY_TOPIC |-> TRUE,
   EMAIL_ON_OPEN |-> TRUE, EMAIL_ON_ALARM |-> TRUE, HEARTBEAT_MINUTES |-> 0]
AlertsConfig == [LiveConfig EXCEPT !.GOOGLE_SHEETS_WEBHOOK = FALSE]
DryRunConfig == [LiveConfig EXCEPT !.DRY_RUN = TRUE, !.DEBUG = TRUE]
EmailConfig ==
  [LiveConfig EXCEPT !.GOOGLE_SHEETS_WEBHOOK = FALSE, !.NTFY_TOPIC = FALSE,
                     !.EMAIL_ON_OPEN = FALSE]
Configs == {LiveConfig, AlertsConfig, DryRunConfig, EmailConfig, NoConfig}

\* rules.json: a property that is absent is 0
RepeatingRule ==
  [zone |-> 1, condition |-> "open_duration", minutes |-> 5, action |-> "both",
   repeatInterval |-> 10, maxRepeats |-> 0]
OnceRule ==
  [zone |-> 1, condition |-> "open_duration", minutes |-> 0, action |-> "email",
   repeatInterval |-> 0, maxRepeats |-> 0]
LimitedRule ==
  [zone |-> 2, condition |-> "open_duration", minutes |-> 30, action |-> "ntfy",
   repeatInterval |-> 5, maxRepeats |-> 1]
RuleLists == {<<>>, <<RepeatingRule>>, <<OnceRule, LimitedRule>>}

\* the options and rules the listener is started with; the webhook and the
\* repeating rule are exercised apart
Setups == (Configs \X RuleLists) \ {<<LiveConfig, <<RepeatingRule>>>>}

\* the texts of the datagrams
Datagrams ==
  {<<"<","1","6","6",">","E","N","V","I","S","A","L","I","N","K","[","0","0","1","C","2","A","0","2","B","B","1","F","]",":"," "," ","Z","o","n","e"," ","O","p","e","n",":"," ","0","0","1">>, <<"Z","o","n","e"," ","C","l","o","s","e",":"," ","0","0","1">>, <<"A","l","a","r","m">>}

\* the listener is bound, started with one of the setups
ListeningWith(setups) ==
  /\ pc = "listening"
  /\ raw = <<>>
  /\ zones = TestZones
  /\ zoneNumber = Num(0)
  /\ result = NoResult
  /\ name = Null
  /\ cidArg = Null
  /\ decoded = NullCid
  /\ \E setup \in setups : config = setup[1] /\ rules = setup[2]
  /\ Loaded

InitListener == ListeningWith(Setups)

\* a datagram arrives: server.on('message') runs up to its first await on a
\* request in flight, or to its end; raw is the text of the last datagram
Receive(msg) ==
  /\ pc = "listening"
  /\ exit = "running"
  /\ received < MaxDatagrams
  /\ received' = received + 1
  /\ raw' = msg
  /\ Becomes(OnMessage(Here, received + 1, msg))
  /\ UNCHANGED <<pc, zones, zoneNumber, result, name, cidArg, decoded>>
  /\ UNCHANGED <<config, rules, now, fired>>

\* a timeout fires: the callback of startRuleTimer runs up to its first await
\* on a request in flight, or to its end.  Without an open time for the zone,
\* openedAt.getTime() throws and the callback's promise is rejected with
\* nobody to handle it: a warning, or the end of the process
Fire(t) ==
  /\ pc = "listening"
  /\ exit = "running"
  /\ t \in timers
  /\ fired < MaxFirings
  /\ fired' = fired + 1
  /\ LET s == [Here EXCEPT !.timers = @ \ {t}]
     IN IF Has(zoneOpenTimes, t.zoneKey)
          THEN Becomes(TimerCallback(s, TimerCall(t)))
        ELSE \/ Becomes(s)
             \/ Becomes(Exit(s, "unhandledRejection"))
  /\ UNCHANGED <<pvars, config, rules, now, received>>

\* a suspended call made to wait for the calls of earlier datagrams
ReadyInOrder(task) ==
  /\ task \in tasks
  /\ \A other \in tasks : other.call.n >= task.call.n

\* the event loop resumes a suspended call when its own request ends,
\* whatever other calls are suspended
Ready(task) == task \in tasks

\* the request a suspended call awaits ends: the sink logs and returns, and
\* the call runs up to its next await on a request in flight, or to its end.
\* The 'error' of the follow-up request of a redirect has no listener: an
\* uncaught exception ends the process
Resume(task, outcome) ==
  /\ pc = "listening"
  /\ exit = "running"
  /\ Ready(task)
  /\ outcome \in Outcomes(SinkOf(task.at))
  /\ LET s == [Here EXCEPT !.tasks = @ \ {task}]
     IN IF outcome = "redirect error"
          THEN Becomes(Exit(s, "uncaughtException"))
        ELSE Becomes(Continue(SinkReturns(s, SinkOf(task.at), task.call, outcome),
                              task))
  /\ UNCHANGED <<pvars, config, rules, now, received, fired>>

NextListener ==
  \/ \E msg \in Datagrams : Receive(msg)
  \/ \E t \in timers : Fire(t)
  \/ \E task \in tasks : \E outcome \in Outcomes(SinkOf(task.at)) : Resume(task, outcome)

SpecListener == InitListener /\ [][NextListener]_vars

\* the listener before any rule timer is due: datagrams arrive and requests end
NextEarly ==
  \/ \E msg \in Datagrams : Receive(msg)
  \/ \E task \in tasks : \E outcome \in Outcomes(SinkOf(task.at)) : Resume(task, outcome)

\* the requests of the second datagram's handler end at some time; the
\* requests of the other calls may take for ever
ResumeSecond ==
  \E task \in tasks : \E outcome \in Outcomes(SinkOf(task.at)) :
    task.call.n = 2 /\ Resume(task, outcome)

\* started with every sink configured, so that every handler is suspended
InitLive == InitListener /\ config = LiveConfig

FairListener == InitLive /\ [][NextEarly]_vars /\ WF_vars(ResumeSecond)

----------------------------------------------------------------------------
(* Specification: datagrams that report alarms and opened zones, no rules
   loaded *)

\* email on opened zones only; no email on events
OpenOnlyConfig ==
  [EmailConfig EXCEPT !.EMAIL_ON_OPEN = TRUE, !.EMAIL_ON_ALARM = FALSE]
QuietConfig == [EmailConfig EXCEPT !.EMAIL_ON_ALARM = FALSE]

AlarmSetups ==
  {LiveConfig, AlertsConfig, DryRunConfig, EmailConfig, OpenOnlyConfig, QuietConfig}
    \X {<<>>}

\* an alarm as free text, as a zone event and as a Contact ID report (130,
\* Burglary Alarm); an opened zone; something else
AlarmDatagrams ==
  {<<"B","u","r","g","l","a","r"," ","a","l","a","r","m">>, <<"Z","o","n","e"," ","A","l","a","r","m",":"," ","0","0","1">>, <<"C","I","D"," ","E","v","e","n","t",":"," ","1","1","3","0","0","1","0","0","1","0">>,
   <<"Z","o","n","e"," ","O","p","e","n",":"," ","0","0","1">>, <<"x">>}

InitAlarms == ListeningWith(AlarmSetups)

NextAlarms ==
  \/ \E msg \in AlarmDatagrams : Receive(msg)
  \/ \E task \in tasks : \E outcome \in Outcomes(SinkOf(task.at)) : Resume(task, outcome)

SpecAlarms == InitAlarms /\ [][NextAlarms]_vars

----------------------------------------------------------------------------
(* Specification: the listener with heartbeat monitoring: datagrams arrive,
   rule timers fire, the heartbeat interval fires every minute, requests end *)

\* bound on the minutes that pass
MaxMinutes == 4

\* alert after 2 minutes of silence: by email only, with no email on events;
\* and as a dry run with every sink configured
HeartbeatConfig == [QuietConfig EXCEPT !.HEARTBEAT_MINUTES = 2]
DryRunHeartbeatConfig == [DryRunConfig EXCEPT !.HEARTBEAT_MINUTES = 2]

MonitorSetups ==
  {<<HeartbeatConfig, <<>>>>, <<DryRunHeartbeatConfig, <<RepeatingRule>>>>,
   <<DryRunHeartbeatConfig, <<OnceRule, LimitedRule>>>>}

InitMonitor == ListeningWith(MonitorSetups)

\* a minute passes and the interval of startHeartbeat fires: its callback
\* runs up to its first await on a request in flight, or to its end
Check ==
  /\ pc = "listening"
  /\ exit = "running"
  /\ config.HEARTBEAT_MINUTES > 0
  /\ now < MaxMinutes
  /\ now' = now + 1
  /\ Becomes(HeartbeatCheck(Here, HeartbeatCall(now + 1), now + 1))
  /\ UNCHANGED <<pvars, config, rules, received, fired>>

NextMonitor ==
  \/ \E msg \in Datagrams : Receive(msg)
  \/ \E t \in timers : Fire(t)
  \/ Check
  \/ \E task \in tasks : \E outcome \in Outcomes(SinkOf(task.at)) : Resume(task, outcome)

SpecMonitor == InitMonitor /\ [][NextMonitor]_vars

----------------------------------------------------------------------------
(* Specification: the rules engine with rules for two zones *)

\* alerts by email only, and by email and push; the webhook not configured
RuleSetups ==
  {<<EmailConfig, <<RepeatingRule>>>>, <<EmailConfig, <<OnceRule, LimitedRule>>>>,
   <<AlertsConfig, <<OnceRule, LimitedRule>>>>}

\* zones 1 and 2 open, zone 1 closes, another zone event, an event of no zone
RuleDatagrams ==
  {<<"Z","o","n","e"," ","O","p","e","n",":"," ","0","0","1">>, <<"Z","o","n","e"," ","O","p","e","n",":"," ","0","0","2">>, <<"Z","o","n","e"," ","C","l","o","s","e",":"," ","0","0","1">>, <<"Z","o","n","e"," ","A","l","a","r","m",":"," ","0","0","2">>,
   <<"x">>}

InitRules == ListeningWith(RuleSetups)

NextRules ==
  \/ \E msg \in RuleDatagrams : Receive(msg)
  \/ \E t \in timers : Fire(t)
  \/ \E task \in tasks : \E outcome \in Outcomes(SinkOf(task.at)) : Resume(task, outcome)

SpecRules == InitRules /\ [][NextRules]_vars

----------------------------------------------------------------------------
(* Properties of parseSyslogMessage and getZoneName *)

\* the content the matchers of the call in this state work on
Content == StripHeader(raw)

\* no matcher recognises c: no zone pattern, no 'arm' (hence no 'alarm'),
\* no CID pattern
Unrecognised(c) ==
  ~zoneMatch(c).found /\ ~ContainsCI(c, <<"a","r","m">>) /\ ~cidMatch(c).found

ArmLabels ==
  {<<"D","i","s","a","r","m","e","d">>, <<"A","r","m","e","d">>, <<"A","r","m","e","d"," ","S","t","a","y">>, <<"A","r","m","e","d"," ","A","w","a","y">>, <<"A","r","m","e","d"," ","N","i","g","h","t">>}

\* C1: parseSyslogMessage is total: for every input text and every zone
\* directory, null included, it returns a record without throwing, the
\* record's event is not null, and input that no matcher recognises yields
\* event 'Other' with zone null.
C1_Total ==
  pc = "parsed" =>
    /\ ~result.threw
    /\ result.event # Null
    /\ Unrecognised(Content) => result.event = <<"O","t","h","e","r">> /\ result.zone = NullNum

\* a zone message classified against the null directory
C1_Witness ==
  /\ pc = "parsed"
  /\ zones.isNull
  /\ zoneMatch(Content).found
  /\ ~result.threw
  /\ result.zoneName # Null

\* C2: the matchers apply in the order zone pattern, alarm/arm text, CID
\* pattern, fallback, and the first that matches alone determines the record:
\* content matching the zone pattern yields 'Zone <action>' with zone set even
\* when it also holds 'alarm', 'arm' or a CID token ('Zone Alarm: 001' is
\* 'Zone Alarm', never 'Alarm'), and no later matcher changes event, zone or
\* message.
C2_FirstMatchWins ==
  pc = "parsed" =>
    LET c  == Content
        zm == zoneMatch(c)
    IN /\ zm.found =>
            /\ StartsWithAt(result.event, 1, <<"Z","o","n","e"," ">>)
            /\ zm.action = <<"A","l","a","r","m">> => result.event = <<"Z","o","n","e"," ","A","l","a","r","m">>
            /\ result.zone # NullNum
            /\ result.message = c
            /\ result.partition = UndefinedNum /\ result.user = UndefinedNum
       /\ ~zm.found /\ ContainsCI(c, <<"a","l","a","r","m">>) =>
            /\ result.event = <<"A","l","a","r","m">>
            /\ result.zone = NullNum
            /\ result.message = c
            /\ result.partition = UndefinedNum
       /\ ~zm.found /\ ~ContainsCI(c, <<"a","l","a","r","m">>) /\ ContainsCI(c, <<"a","r","m">>) =>
            /\ result.event \in ArmLabels
            /\ result.zone = NullNum
            /\ result.message = c
            /\ result.partition = UndefinedNum
       /\ ~zm.found /\ ~ContainsCI(c, <<"a","r","m">>) /\ cidMatch(c).found =>
            /\ result.event # <<"O","t","h","e","r">>
            /\ result.zone = NullNum
            /\ result.partition # UndefinedNum
       /\ Unrecognised(c) => result.event = <<"O","t","h","e","r">>

\* a zone alarm message that also holds a CID token
C2_Witness ==
  /\ pc = "parsed"
  /\ zoneMatch(Content).found
  /\ ContainsCI(Content, <<"a","l","a","r","m">>)
  /\ cidMatch(Content).found
  /\ result.event = <<"Z","o","n","e"," ","A","l","a","r","m">>

\* C3: content that does not match the zone pattern and holds 'alarm' in any
\* letter case is classified 'Alarm', never as an armed or disarmed variant,
\* whatever other words it holds.
C3_AlarmBeforeArm ==
  pc = "parsed" /\ ~zoneMatch(Content).found /\ ContainsCI(Content, <<"a","l","a","r","m">>) =>
    result.event = <<"A","l","a","r","m">> /\ result.event \notin ArmLabels

\* an alarm message that also holds 'disarm'
C3_Witness ==
  /\ pc = "parsed"
  /\ ~zoneMatch(Content).found
  /\ ContainsCI(Content, <<"a","l","a","r","m">>)
  /\ ContainsCI(Content, <<"d","i","s","a","r","m">>)
  /\ result.event = <<"A","l","a","r","m">>

\* the canonical label of a matched action word
CanonicalLabel(action) ==
  LET a == ToLowerCase(action)
  IN IF a \in {<<"o","p","e","n">>, <<"o","p","e","n","e","d">>} THEN <<"Z","o","n","e"," ","O","p","e","n">>
     ELSE IF a \in {<<"c","l","o","s","e">>, <<"c","l","o","s","e","d">>} THEN <<"Z","o","n","e"," ","C","l","o","s","e">>
     ELSE IF a \in {<<"r","e","s","t","o","r","e">>, <<"r","e","s","t","o","r","e","d">>} THEN <<"Z","o","n","e"," ","R","e","s","t","o","r","e">>
     ELSE IF a = <<"a","l","a","r","m">> THEN <<"Z","o","n","e"," ","A","l","a","r","m">>
     ELSE IF a = <<"t","r","o","u","b","l","e">> THEN <<"Z","o","n","e"," ","T","r","o","u","b","l","e">>
     ELSE <<"Z","o","n","e"," ","T","a","m","p","e","r">>

\* C4: for every zone-pattern match, in any letter case of the keyword and
\* the action word, the event is the canonical label of the action word: one
\* of 'Zone Open', 'Zone Close', 'Zone Alarm', 'Zone Trouble', 'Zone Tamper',
\* 'Zone Restore', with Open/Opened, Close/Closed and Restore/Restored merged.
C4_CanonicalLabels ==
  pc = "parsed" /\ zoneMatch(Content).found =>
    result.event = CanonicalLabel(zoneMatch(Content).action)

\* the integer a zone identifier denotes
IdValue(zn) == IF zn.t = "number" THEN zn.v ELSE ParseInt(zn.v)

\* the names directory zs holds for integer n, under any zero-padded key
NamesOf(zs, n) ==
  {zs.entries[k] : k \in {k \in DOMAIN zs.entries : ParseInt(k) = n}}

\* C5: getZoneName compares directory keys by integer value: an identifier
\* whose value is a key in any zero-padded form gets the mapped name; an
\* identifier whose value is absent gets 'Zone ' followed by the value as a
\* plain decimal integer.
C5_IntegerKeys ==
  pc = "named" =>
    LET n == IdValue(zoneNumber)
    IN IF NamesOf(zones, n) # {}
         THEN name \in NamesOf(zones, n)
         ELSE name = <<"Z","o","n","e"," ">> \o NumberToString(n)

\* C6: on a zone-pattern match the digit run is read as a decimal integer,
\* leading zeros discarded, and zoneName is the directory's name for that
\* integer if it has one, otherwise 'Zone N'; also with an empty or null
\* directory.
C6_ZoneNumberAndName ==
  pc = "parsed" /\ zoneMatch(Content).found =>
    LET digits == zoneMatch(Content).digits
        n      == result.zone
        names  == NamesOf(DefaultZones(zones), n) \ {<<>>}
    IN /\ n >= 0
       /\ \E p \in 0..Len(digits) : digits = Zeros(p) \o NumberToString(n)
       /\ IF names # {} THEN result.zoneName \in names
          ELSE result.zoneName = <<"Z","o","n","e"," ">> \o NumberToString(n)

\* C7: in every record parseSyslogMessage returns, zoneName is a non-empty
\* string if and only if zone is a non-null integer, also for a directory
\* that maps a zone to the empty name.
C7_ZoneNameIffZone ==
  pc = "parsed" =>
    (result.zone # NullNum <=> (result.zoneName # Null /\ result.zoneName # <<>>))

\* a zone whose directory name is empty
C7_Witness ==
  /\ pc = "parsed"
  /\ result.zone = 3
  /\ <<"3">> \in DOMAIN zones.entries
  /\ zones.entries[<<"3">>] = <<>>
  /\ result.zoneName = <<"Z","o","n","e"," ","3">>

\* c holds neither "]: " nor a vendor marker
NoHeaderIn(c) ==
  IndexOf(c, <<"]",":"," ">>) < 0 /\ \A m \in 1..Len(Markers) : IndexOf(c, Markers[m]) < 0

\* what follows the first "]: " of r
AfterBracket(r) == Substring(r, IndexOf(r, <<"]",":"," ">>) + 3)

\* two records agree on event, zone and zoneName
SameClass(a, b) ==
  a.event = b.event /\ a.zone = b.zone /\ a.zoneName = b.zoneName

\* the record was produced by a CID decode
CidDecoded == result.partition # UndefinedNum

\* the matchers worked on content c: the message is c, or begins with c when
\* a CID decode appended its annotation
ContentIs(c) ==
  IF CidDecoded THEN StartsWithAt(result.message, 1, c) ELSE result.message = c

\* C8 as stated: for content c holding neither "]: " nor a vendor marker and a
\* header ending with its first "]: ", header + c and c alone are classified
\* alike (event, zone, zoneName), and the content taken is everything after
\* the first "]: ".
C8_ContentIsAllAfterBracket ==
  pc = "parsed" /\ IndexOf(raw, <<"]",":"," ">>) >= 0 /\ NoHeaderIn(AfterBracket(raw)) =>
    /\ SameClass(result, parseSyslogMessage(AfterBracket(raw), zones))
    /\ ContentIs(AfterBracket(raw))

\* C8 amended: header + c and c alone are classified alike, and the content
\* taken is everything after the first "]: " with its leading and trailing
\* white space removed.
C8_HeaderStripping ==
  pc = "parsed" /\ IndexOf(raw, <<"]",":"," ">>) >= 0 /\ NoHeaderIn(AfterBracket(raw)) =>
    /\ SameClass(result, parseSyslogMessage(AfterBracket(raw), zones))
    /\ ContentIs(Trim(AfterBracket(raw)))

\* a zone message behind a syslog header that is followed by two spaces
C8_Witness ==
  /\ pc = "parsed"
  /\ IndexOf(raw, <<"]",":"," ">>) >= 0
  /\ NoHeaderIn(AfterBracket(raw))
  /\ AfterBracket(raw) # Trim(AfterBracket(raw))
  /\ result.zone = 3
  /\ result.zoneName = <<"G","a","r","a","g","e"," ","D","o","o","r">>
  /\ result.message = Trim(AfterBracket(raw))

\* the markers that occur in r
Occurring(r) == {m \in 1..Len(Markers) : IndexOf(r, Markers[m]) >= 0}

\* of the markers that occur in r, the one whose first occurrence is leftmost
EarliestMarker(r) ==
  CHOOSE m \in Occurring(r) :
    \A k \in Occurring(r) : IndexOf(r, Markers[m]) <= IndexOf(r, Markers[k])

\* what follows the first occurrence of marker number m in r
AfterOccurrence(r, m) == Substring(r, IndexOf(r, Markers[m]) + Len(Markers[m]))

\* C9 as stated: without "]: " but with a vendor marker, the content is
\* everything after the first occurrence of a marker, less the run of colon,
\* bracket and white space characters that follows it; of several markers the
\* one occurring earliest in the text is used.
C9_EarliestMarkerUsed ==
  pc = "parsed" /\ IndexOf(raw, <<"]",":"," ">>) < 0 /\ Occurring(raw) # {} =>
    ContentIs(StripLeadingPunct(AfterOccurrence(raw, EarliestMarker(raw))))

\* C9 amended: without "]: " but with a vendor marker, the marker used is the
\* first of ENVISALINK, envisalink, EVL4, evl4, in that order, that occurs
\* anywhere in the text; the content is everything after that marker's first
\* occurrence, less the run of colon, bracket and white space characters that
\* follows it and less trailing white space.
C9_ListOrderMarkerUsed ==
  pc = "parsed" /\ IndexOf(raw, <<"]",":"," ">>) < 0 /\ Occurring(raw) # {} =>
    ContentIs(Trim(StripLeadingPunct(AfterOccurrence(raw, Min(Occurring(raw))))))

\* a text where evl4 comes before ENVISALINK and ENVISALINK is the one used
C9_Witness ==
  /\ pc = "parsed"
  /\ IndexOf(raw, <<"]",":"," ">>) < 0
  /\ Occurring(raw) = {1, 4}
  /\ IndexOf(raw, Markers[4]) < IndexOf(raw, Markers[1])
  /\ ~CidDecoded
  /\ result.message = Trim(StripLeadingPunct(AfterOccurrence(raw, 1)))
  /\ result.message # <<>>

\* the post-header content of r
PostHeader(r) ==
  IF IndexOf(r, <<"]",":"," ">>) >= 0 THEN Trim(AfterBracket(r))
  ELSE IF Occurring(r) # {}
    THEN Trim(StripLeadingPunct(AfterOccurrence(r, Min(Occurring(r)))))
  ELSE r

----------------------------------------------------------------------------
(* Claims on Contact ID decoding *)

\* the arm family of event codes
ArmFamily ==
  {<<"4","0","0">>, <<"4","0","1">>, <<"4","0","3">>, <<"4","0","7">>, <<"4","0","8">>, <<"4","0","9">>, <<"4","4","1">>, <<"4","4","2">>, <<"4","4","3">>}

\* the event name the arm family is to get from a qualifier and a code
ArmFamilyEvent(q, c) ==
  CASE q = <<"1">> -> <<"D","i","s","a","r","m","e","d">>
    [] q = <<"3">> /\ c = <<"4","4","1">> -> <<"A","r","m","e","d"," ","S","t","a","y">>
    [] q = <<"3">> /\ c = <<"4","4","2">> -> <<"A","r","m","e","d"," ","A","w","a","y">>
    [] q = <<"3">> /\ c = <<"4","4","3">> -> <<"A","r","m","e","d"," ","N","i","g","h","t">>
    [] q = <<"3">> /\ c \notin {<<"4","4","1">>, <<"4","4","2">>, <<"4","4","3">>} -> <<"A","r","m","e","d">>
    [] OTHER -> CID_EVENT_CODES[c]

\* the report parseSyslogMessage found in the content, and whether it found one
ReportOf(c) == cidMatch(c).digits
HasReport(c) == cidMatch(c).found

\* C11: for a report whose event code is of the arm family, qualifier 1 gives
\* 'Disarmed', qualifier 3 gives 'Armed Stay' (441), 'Armed Away' (442),
\* 'Armed Night' (443) or 'Armed' (the other codes), and every other qualifier
\* gives the code's table description; both from parseCID and in the record
\* of parseSyslogMessage
C11_ArmFamilyQualifier ==
  /\ (pc = "decoded" /\ cidArg # Null /\ Len(cidArg) >= 9
        /\ SubSeq(cidArg, 2, 4) \in ArmFamily)
       => /\ ~decoded.isNull
          /\ decoded.event = ArmFamilyEvent(SubSeq(cidArg, 1, 1), SubSeq(cidArg, 2, 4))
  /\ (pc = "parsed" /\ HasReport(Content)
        /\ SubSeq(ReportOf(Content), 2, 4) \in ArmFamily)
       => result.event = ArmFamilyEvent(SubSeq(ReportOf(Content), 1, 1),
                                        SubSeq(ReportOf(Content), 2, 4))

C11_Witness ==
  /\ pc = "decoded"
  /\ cidArg # Null /\ Len(cidArg) >= 9
  /\ SubSeq(cidArg, 1, 4) = <<"6","4","0","1">>
  /\ decoded.event = <<"O","p","e","n","/","C","l","o","s","e"," ","b","y"," ","U","s","e","r">>

\* the event name a code outside the arm family is to get
OtherCodeEvent(c) ==
  IF ParseInt(c) >= 100 /\ ParseInt(c) < 200 THEN <<"A","l","a","r","m">>
  ELSE IF c \in DOMAIN CID_EVENT_CODES THEN CID_EVENT_CODES[c]
  ELSE <<"C","I","D"," ">> \o c

\* C12: for a report whose event code is outside the arm family, the event is
\* 'Alarm' when the code's value is in [100, 200), for every qualifier and
\* whether or not the code is in the table; otherwise it is the table
\* description, or 'CID ' and the three digits for a code absent from the
\* table; a code absent from the table has description 'Unknown (<code>)'
C12_OtherCodes ==
  /\ (pc = "decoded" /\ cidArg # Null /\ Len(cidArg) >= 9
        /\ SubSeq(cidArg, 2, 4) \notin ArmFamily)
       => /\ ~decoded.isNull
          /\ decoded.event = OtherCodeEvent(SubSeq(cidArg, 2, 4))
          /\ SubSeq(cidArg, 2, 4) \notin DOMAIN CID_EVENT_CODES
               => decoded.description = <<"U","n","k","n","o","w","n"," ","(">> \o SubSeq(cidArg, 2, 4) \o <<")">>
  /\ (pc = "parsed" /\ HasReport(Content)
        /\ SubSeq(ReportOf(Content), 2, 4) \notin ArmFamily)
       => /\ result.event = OtherCodeEvent(SubSeq(ReportOf(Content), 2, 4))
          /\ SubSeq(ReportOf(Content), 2, 4) \notin DOMAIN CID_EVENT_CODES
               => StartsWithAt(result.message, Len(Content) + 1,
                     <<" ","(","U","n","k","n","o","w","n"," ","(">> \o SubSeq(ReportOf(Content), 2, 4) \o <<")">>)

C12_Witness ==
  /\ pc = "decoded"
  /\ cidArg # Null /\ Len(cidArg) >= 9
  /\ SubSeq(cidArg, 1, 4) = <<"3","1","9","9">>
  /\ decoded.event = <<"A","l","a","r","m">>
  /\ decoded.description = <<"U","n","k","n","o","w","n"," ","(","1","9","9",")">>

\* the partition and the zone or user written in report d: digits 5-6 and 7-9
\* (counted from 1)
PartitionDigits(d) == 10 * DigitVal(d[5]) + DigitVal(d[6])
UserDigits(d) == 100 * DigitVal(d[7]) + 10 * DigitVal(d[8]) + DigitVal(d[9])

\* C13: the fields of a report are read at fixed places: the qualifier is the
\* first digit, the event code the next three kept as a string of three
\* characters, the partition the next two as an integer, the zone or user the
\* next three as an integer, and a tenth digit changes no field; the record's
\* partition and user are the decoded values, for codes absent from the table
\* too
C13_FixedWidthFields ==
  /\ (pc = "decoded" /\ cidArg # Null /\ Len(cidArg) >= 9)
       => /\ ~decoded.isNull
          /\ decoded.qualifier = SubSeq(cidArg, 1, 1)
          /\ decoded.eventCode = SubSeq(cidArg, 2, 4)
          /\ decoded.partition = PartitionDigits(cidArg)
          /\ decoded.zoneOrUser = UserDigits(cidArg)
          /\ decoded = parseCID(SubSeq(cidArg, 1, 9))
  /\ (pc = "parsed" /\ HasReport(Content))
       => /\ result.partition = PartitionDigits(ReportOf(Content))
          /\ result.user = UserDigits(ReportOf(Content))

C13_Witness ==
  /\ pc = "parsed"
  /\ raw = <<"C","I","D"," ","E","v","e","n","t",":"," ","6","9","9","9","1","2","1","0","2","7">>
  /\ result.partition = 12
  /\ result.user = 102

\* "CID", whitespace and "Event:" stand at position i of s, in any letter case
KeywordAt(s, i) ==
  /\ StartsWithAtCI(s, i, <<"c","i","d">>)
  /\ SkipSpaces(s, i + 3) > i + 3
  /\ StartsWithAtCI(s, SkipSpaces(s, i + 3), <<"e","v","e","n","t",":">>)

\* the number of digits that follow the keyword at position i, whitespace skipped
DigitsAfterKeyword(s, i) ==
  LET m == SkipSpaces(s, SkipSpaces(s, i + 3) + 6) IN SkipDigits(s, m) - m

\* s holds the keyword, and fewer than 9 digits follow it wherever it stands
OnlyShortReports(s) ==
  /\ \E i \in 1..Len(s) : KeywordAt(s, i)
  /\ \A i \in 1..Len(s) : KeywordAt(s, i) => DigitsAfterKeyword(s, i) < 9

\* C14: a report of fewer than 9 digits is never decoded: parseCID returns null
\* for every string shorter than 9 characters, the empty string and null; and
\* content whose "CID Event:" is followed by fewer than 9 digits, matching no
\* earlier matcher, is 'Other' with no partition and no user
C14_ShortNeverDecoded ==
  /\ (pc = "decoded" /\ (cidArg = Null \/ Len(cidArg) < 9)) => decoded.isNull
  /\ (pc = "parsed" /\ OnlyShortReports(Content)
        /\ ~zoneMatch(Content).found /\ ~ContainsCI(Content, <<"a","r","m">>))
       => /\ result.event = <<"O","t","h","e","r">>
          /\ result.partition = UndefinedNum
          /\ result.user = UndefinedNum
          /\ result.message = Content

C14_Witness ==
  /\ pc = "parsed"
  /\ raw = <<"C","I","D"," ","E","v","e","n","t",":"," ","3","4","4","1","0","0","0","0">>
  /\ result.event = <<"O","t","h","e","r">>
  /\ result.partition = UndefinedNum

\* the description of event code c
DescriptionOf(c) ==
  IF c \in DOMAIN CID_EVENT_CODES THEN CID_EVENT_CODES[c]
  ELSE <<"U","n","k","n","o","w","n"," ","(">> \o c \o <<")">>

\* the message a decoded report d in content c is to get
Annotated(c, d) ==
  c \o <<" ","(">> \o DescriptionOf(SubSeq(d, 2, 4))
    \o (IF PartitionDigits(d) = 0 THEN <<>>
        ELSE <<","," ","p","a","r","t","i","t","i","o","n"," ">> \o NumberToString(PartitionDigits(d)))
    \o (IF UserDigits(d) = 0 THEN <<>>
        ELSE <<","," ","u","s","e","r"," ">> \o NumberToString(UserDigits(d)))
    \o <<")">>

\* C15: after a decode the message is the content followed by
\* ' (<description>, partition <p>, user <u>)', the partition clause left out
\* exactly when the partition is 0 and the user clause exactly when the user
\* is 0, the separators well-formed in all four cases
C15_Annotation ==
  (pc = "parsed" /\ HasReport(Content)
     /\ ~zoneMatch(Content).found /\ ~ContainsCI(Content, <<"a","r","m">>))
    => result.message = Annotated(Content, ReportOf(Content))

C15_Witness ==
  /\ pc = "parsed"
  /\ raw = <<"C","I","D"," ","E","v","e","n","t",":"," ","1","4","4","1","0","0","0","5","1","0">>
  /\ result.message = <<"C","I","D"," ","E","v","e","n","t",":"," ","1","4","4","1","0","0","0","5","1","0"," ","(","A","r","m","e","d"," ","S","t","a","y","/","D","i","s","a","r","m","e","d",","," ","u","s","e","r"," ","5","1",")">>

\* the record carries neither partition nor user
NoPartitionNoUser == result.partition = UndefinedNum /\ result.user = UndefinedNum

\* C17: a record carries partition and user only when a Contact ID decode
\* produced it: the records of the zone matcher, of the alarm/arm text matcher
\* and of the fallback have neither, and the records of the text matcher have
\* zone null and zoneName null
C17_PartitionUserOnlyFromCid ==
  pc = "parsed" =>
    /\ ~NoPartitionNoUser
         => /\ HasReport(Content)
            /\ ~zoneMatch(Content).found /\ ~ContainsCI(Content, <<"a","r","m">>)
            /\ result.partition # UndefinedNum /\ result.user # UndefinedNum
    /\ zoneMatch(Content).found => NoPartitionNoUser
    /\ (~zoneMatch(Content).found /\ ContainsCI(Content, <<"a","r","m">>))
         => /\ NoPartitionNoUser
            /\ result.zone = NullNum
            /\ result.zoneName = Null
    /\ Unrecognised(Content) => NoPartitionNoUser

C17_Witness ==
  /\ pc = "parsed"
  /\ raw = <<"a","r","m","e","d"," ","C","I","D"," ","E","v","e","n","t",":"," ","3","4","4","1","0","1","0","0","2","0">>
  /\ result.event = <<"A","r","m","e","d">>
  /\ NoPartitionNoUser
  /\ result.zone = NullNum

----------------------------------------------------------------------------
(* Claims on the listener *)

\* the open time of zone zoneKey is recorded: with rules loaded, a Zone Open
\* of the zone was evaluated and no Zone Close of it since
OpenRecorded(zoneKey) == Has(zoneOpenTimes, zoneKey)

\* every pending rule timer belongs to a zone whose open time is recorded
NoTimerWhileClosed == \A t \in timers : OpenRecorded(t.zoneKey)

\* the requests a step issues from rule-timer callbacks are for zones whose
\* open time is recorded
NoAlertWhileClosed ==
  \A r \in requests' \ requests :
    r.call.kind = "timer" => OpenRecorded(r.call.zoneKey)

\* C18: open-duration alerting cancels on close: from the evaluation of a
\* Zone Close of zone z until the evaluation of a later Zone Open of z, no
\* timer of z is pending and no open-duration alert of z is sent, whatever the
\* interleaving of datagram handlers and timer callbacks
C18_CancelOnClose == [](NoTimerWhileClosed) /\ [][NoAlertWhileClosed]_vars

\* the step is the end of a request: no datagram arrived and no timeout fired
RequestEnds == received' = received /\ fired' = fired /\ tasks' # tasks

\* C19: the failure of an outbound sink (Mailgun, the Google Sheets webhook,
\* ntfy) is caught inside the sink and never propagates: whenever a request
\* ends, well or badly, the call that awaited it goes on and the process keeps
\* running
C19_SinkFailuresContained ==
  [][RequestEnds => exit' = "running"]_vars

\* the log holds the event line of datagram number n
EventLogged(n) ==
  \E line \in logFile : line.kind = "event" /\ line.call.kind = "message" /\ line.call.n = n

\* the handler of datagram number n is suspended at an await
Suspended(n) == \E task \in tasks : task.call.kind = "message" /\ task.call.n = n

\* the handler of datagram number n has run to its end
Finished(n) == received >= n /\ ~Suspended(n)

\* C20: the downstream actions of a datagram do not block the next one:
\* every datagram is parsed and its line logged at its arrival, whatever calls
\* are suspended; and with the requests of the first datagram's handler never
\* ending, the handler of the second goes through its rule evaluation and its
\* alerts to its end (unless the process ends)
C20_NoBlocking ==
  /\ [][received' = received + 1 => EventLogged(received)']_vars
  /\ (received >= 2) ~> (Finished(2) \/ exit # "running")

C20_Witness ==
  /\ Suspended(1)
  /\ Finished(2)
  /\ EventLogged(2)
  /\ \E r \in requests : r.sink = "mailgun" /\ r.call.kind = "message" /\ r.call.n = 2

----------------------------------------------------------------------------
(* Claims on the listener's alerts *)

\* the text reports an alarm: it holds 'alarm' (free text, or the zone-keyed
\* form 'Zone Alarm: N'), or a Contact ID report with a code in 100-199
ReportsAlarm(text) ==
  \/ ContainsCI(text, <<"a","l","a","r","m">>)
  \/ /\ HasReport(text)
     /\ ParseInt(SubSeq(ReportOf(text), 2, 4)) >= 100
     /\ ParseInt(SubSeq(ReportOf(text), 2, 4)) <= 199

\* the text is a 'Zone Open' datagram
ReportsOpen(text) == ContainsCI(text, <<"z","o","n","e"," ","o","p","e","n",":">>)

\* what a call of sendAlert leaves behind, whatever way it takes
AlertTraces ==
  {"[DRY RUN] Would send email", "Mailgun not configured", "Email skipped"}

\* the handler of datagram number n has called sendAlert
Alerted(n) ==
  \/ \E r \in requests :
       r.sink = "mailgun" /\ r.call.kind = "message" /\ r.call.n = n
  \/ \E line \in logFile :
       line.kind \in AlertTraces /\ line.call.kind = "message" /\ line.call.n = n

\* C21: with emailOnAlarm every datagram that reports an alarm (free text
\* with 'alarm', 'Zone Alarm: N', a CID code in 100-199) has its sendAlert call
\* when its handler has run to the end; with emailOnOpen so has every 'Zone
\* Open' datagram; with both off no handler calls sendAlert
C21_AlertPerAlarm ==
  /\ (received >= 1 /\ Finished(received) /\ exit = "running")
       => /\ (config.EMAIL_ON_ALARM /\ ReportsAlarm(raw)) => Alerted(received)
          /\ (config.EMAIL_ON_OPEN /\ ReportsOpen(raw)) => Alerted(received)
  /\ (~config.EMAIL_ON_ALARM /\ ~config.EMAIL_ON_OPEN)
       => \A n \in 1..received : ~Alerted(n)

\* the log holds the line of this kind written by this call
Logged(kind, call) == [kind |-> kind, call |-> call] \in logFile

\* the calls that wrote a line of this kind
Writers(kind) == {line.call : line \in {l \in logFile : l.kind = kind}}

\* every send of the calls so far to a configured sink has its dry-run line:
\* the webhook post of every datagram, the email of every alarm and opened
\* zone the options ask for, the email and the push of every rule alert and of
\* every heartbeat alert
DryRunLines ==
  /\ \A call \in Writers("event") :
       /\ config.GOOGLE_SHEETS_WEBHOOK
            => Logged("[DRY RUN] Would post to Google Sheets", call)
       /\ (config.EMAIL_ON_ALARM /\ call.event = <<"A","l","a","r","m">>)
            => Logged("[DRY RUN] Would send email", call)
       /\ (config.EMAIL_ON_OPEN /\ call.event = <<"Z","o","n","e"," ","O","p","e","n">>)
            => Logged("[DRY RUN] Would send email", call)
  /\ \A call \in Writers("Alert rule triggered") :
       /\ Rule(call.ruleIndex).action \in {"email", "both"}
            => Logged("[DRY RUN] Would send email", call)
       /\ (Rule(call.ruleIndex).action \in {"ntfy", "both"} /\ config.NTFY_TOPIC)
            => Logged("[DRY RUN] Would send ntfy", call)
  /\ \A call \in Writers("Heartbeat alert") :
       /\ Logged("[DRY RUN] Would send email", call)
       /\ config.NTFY_TOPIC => Logged("[DRY RUN] Would send ntfy", call)

\* C22: with dryRun no request is issued to Mailgun, the webhook or ntfy,
\* whatever datagrams arrive, rule timers fire and heartbeat checks run; each
\* send to a configured sink is logged as a dry-run line instead
C22_DryRunSendsNothing ==
  config.DRY_RUN => (requests = {} /\ tasks = {} /\ DryRunLines)

C22_Witness ==
  /\ config.DRY_RUN
  /\ requests = {}
  /\ \E call \in Writers("event") :
       call.event = <<"Z","o","n","e"," ","O","p","e","n">> /\ Logged("[DRY RUN] Would send email", call)
  /\ \E call \in Writers("Alert rule triggered") :
       Logged("[DRY RUN] Would send ntfy", call)
  /\ \E call \in Writers("Heartbeat alert") :
       Logged("[DRY RUN] Would send email", call)

----------------------------------------------------------------------------
(* Claims on arm/disarm text *)

\* the words looked for, in their order of priority, and the event of each
ArmPriority ==
  << [word |-> <<"d","i","s","a","r","m">>, event |-> <<"D","i","s","a","r","m","e","d">>],
     [word |-> <<"s","t","a","y">>, event |-> <<"A","r","m","e","d"," ","S","t","a","y">>],
     [word |-> <<"a","w","a","y">>, event |-> <<"A","r","m","e","d"," ","A","w","a","y">>],
     [word |-> <<"n","i","g","h","t">>, event |-> <<"A","r","m","e","d"," ","N","i","g","h","t">>],
     [word |-> <<"i","n","s","t","a","n","t">>, event |-> <<"A","r","m","e","d"," ","N","i","g","h","t">>] >>

\* the places in ArmPriority of the words that c holds, in any letter case
WordsHeld(c) == {i \in 1..Len(ArmPriority) : ContainsCI(c, ArmPriority[i].word)}

\* the event of the first word held, 'Armed' when none is
FirstWordEvent(c) ==
  IF WordsHeld(c) = {} THEN <<"A","r","m","e","d">> ELSE ArmPriority[Min(WordsHeld(c))].event

\* C23: content with 'arm' and without 'alarm' that is no zone event gets its
\* event by strict priority, in any letter case: 'disarm' gives 'Disarmed';
\* else 'stay' 'Armed Stay'; else 'away' 'Armed Away'; else 'night' or
\* 'instant' 'Armed Night'; else 'Armed'
C23_ArmPriority ==
  (pc = "parsed" /\ ContainsCI(Content, <<"a","r","m">>) /\ ~ContainsCI(Content, <<"a","l","a","r","m">>)
     /\ ~zoneMatch(Content).found)
    => result.event = FirstWordEvent(Content)

C23_Witness ==
  /\ pc = "parsed"
  /\ raw = <<"A","W","A","Y"," ","A","r","m","e","d"," ","S","t","a","y"," ">>
  /\ result.event = <<"A","r","m","e","d"," ","S","t","a","y">>

----------------------------------------------------------------------------
(* Claims on rule timers *)

\* two pending timers of the same zone and rule are one timer
OneTimerPerRule ==
  \A t1, t2 \in timers :
    (t1.zoneKey = t2.zoneKey /\ t1.ruleIndex = t2.ruleIndex) => t1 = t2

\* every pending timer is the one recorded under its 'zone:ruleIndex' key
TimersRecorded ==
  \A t \in timers :
    /\ Has(zoneOpenTimers, TimerKey(t.zoneKey, t.ruleIndex))
    /\ zoneOpenTimers[TimerKey(t.zoneKey, t.ruleIndex)] = t.id

\* C24: at every moment at most one timer is pending per zone and rule, and
\* every pending timer is the one recorded in zoneOpenTimers under its key,
\* whatever the interleaving of Zone Open and Zone Close datagrams with timer
\* callbacks suspended in a send before they schedule their repeat
C24_OneRecordedTimer == OneTimerPerRule /\ TimersRecorded

\* the datagrams logged so far that open or close zone zoneKey
OpensAndCloses(zoneKey) ==
  {call \in Writers("event") :
     /\ call.zone # NullNum
     /\ NumberToString(call.zone) = zoneKey
     /\ call.event \in {<<"Z","o","n","e"," ","O","p","e","n">>, <<"Z","o","n","e"," ","C","l","o","s","e">>}}

\* one uninterrupted open period of the zone: one Zone Open, no Zone Close and
\* no other Zone Open
OnePeriod(zoneKey) ==
  /\ Cardinality(OpensAndCloses(zoneKey)) = 1
  /\ \A call \in OpensAndCloses(zoneKey) : call.event = <<"Z","o","n","e"," ","O","p","e","n">>

\* the numbers of the alerts of rule i so far: 0 the initial one, k the k-th repeat
AlertNumbers(i) ==
  {call.repeatCount : call \in {c \in Writers("Alert rule triggered") : c.ruleIndex = i}}

\* the pending timers of rule i, and whether a callback of rule i is suspended
PendingOf(i) == {t \in timers : t.ruleIndex = i}
Running(i) == \E task \in tasks : task.call.kind = "timer" /\ task.call.ruleIndex = i

\* the alerts of rule i came in turn, and the timer that is pending is the
\* one of the next alert, after the repeat interval (after the rule's minutes
\* for the initial one)
InTurn(i) ==
  /\ AlertNumbers(i) = 0..(Cardinality(AlertNumbers(i)) - 1)
  /\ \A t \in PendingOf(i) :
       /\ t.repeatCount = Cardinality(AlertNumbers(i))
       /\ t.repeatCount > 0 => t.delayMs = Rule(i).repeatInterval * 60 * 1000
  /\ Cardinality(PendingOf(i)) <= 1

\* C25: in one uninterrupted open period of its zone an open_duration rule
\* with repeatInterval absent or 0 alerts once; with repeatInterval > 0 and
\* maxRepeats = m > 0 its initial alert is followed by the repeats 1..m at
\* most and then no timer of the rule remains; with maxRepeats absent or 0 a
\* timer for the next repeat is set after every alert
C25_RepeatLimit ==
  \A i \in 0..(Len(rules) - 1) :
    (OnePeriod(NumberToString(Rule(i).zone)) /\ exit = "running")
      => /\ InTurn(i)
         /\ Rule(i).repeatInterval = 0
              => /\ AlertNumbers(i) \subseteq {0}
                 /\ AlertNumbers(i) = {0} => PendingOf(i) = {}
         /\ (Rule(i).repeatInterval > 0 /\ Rule(i).maxRepeats > 0)
              => /\ AlertNumbers(i) \subseteq 0..Rule(i).maxRepeats
                 /\ Rule(i).maxRepeats \in AlertNumbers(i) => PendingOf(i) = {}
                 /\ (AlertNumbers(i) # {} /\ Rule(i).maxRepeats \notin AlertNumbers(i)
                       /\ ~Running(i))
                      => PendingOf(i) # {}
         /\ (Rule(i).repeatInterval > 0 /\ Rule(i).maxRepeats = 0
               /\ AlertNumbers(i) # {} /\ ~Running(i))
              => PendingOf(i) # {}

C25_Witness ==
  /\ rules = <<OnceRule, LimitedRule>>
  /\ OnePeriod(<<"2">>)
  /\ AlertNumbers(1) = {0, 1}
  /\ ~Running(1)
  /\ PendingOf(1) = {}
  /\ zoneOpenTimes # <<>>

----------------------------------------------------------------------------
(* Claims on heartbeat monitoring *)

\* the checks that alerted: the numbers of their minutes
AlertMinutes == {call.timer : call \in Writers("Heartbeat alert")}

\* an alert was sent since the last datagram
AlertedSince == \E k \in AlertMinutes : k > lastMessageTime

\* the silence at the check of this step has lasted for the threshold
SilentFor == (now' - lastMessageTime) >= config.HEARTBEAT_MINUTES

\* C26: at most one heartbeat alert per period of silence: a check alerts
\* exactly when the time since the last datagram is at least the threshold
\* and no alert was sent since that datagram, every datagram arming the alert
\* again; also when a datagram arrives, or another check runs, while the sends
\* of an alert are in progress
C26_OneAlertPerSilence ==
  [][now' = now + 1 => ((now' \in AlertMinutes') <=> (SilentFor /\ ~AlertedSince))]_vars

----------------------------------------------------------------------------
(* Claims on evaluateRules *)

\* the calls of the handler that evaluate their rules in this step, the
\* webhook not configured: those that write their event line in it
Evaluated == {line.call : line \in {l \in logFile' \ logFile : l.kind = "event"}}

\* the open_duration rules of the zone of number z
RulesOf(z) ==
  {i \in 0..(Len(rules) - 1) : Rule(i).condition = "open_duration" /\ Rule(i).zone = z}

\* key is a 'zone:ruleIndex' key of zone zoneKey
KeyOf(key, zoneKey) == StartsWithAt(key, 1, zoneKey \o <<":">>)

\* the entries of obj for the other zones are those of obj2
SameElsewhere(obj, obj2, zoneKey) ==
  \A key \in DOMAIN obj \cup DOMAIN obj2 :
    ~KeyOf(key, zoneKey)
      => /\ Has(obj, key) /\ Has(obj2, key)
         /\ obj[key] = obj2[key]

\* the step leaves the timers, repeat counts and open times of the other
\* zones as they are
OtherZonesKept(zoneKey) ==
  /\ {t \in timers : t.zoneKey # zoneKey} = {t \in timers' : t.zoneKey # zoneKey}
  /\ SameElsewhere(zoneOpenTimers, zoneOpenTimers', zoneKey)
  /\ SameElsewhere(zoneRepeatCounts, zoneRepeatCounts', zoneKey)
  /\ \A k \in DOMAIN zoneOpenTimes \cup DOMAIN zoneOpenTimes' :
       k # zoneKey => /\ Has(zoneOpenTimes, k) /\ Has(zoneOpenTimes', k)
                      /\ zoneOpenTimes[k] = zoneOpenTimes'[k]

\* the step restarts rule i of zone zoneKey: the recorded timer is cancelled,
\* the repeat count cleared, and a new timer with the rule's minutes (20 if
\* unset) and repeat count 0 is started and recorded
Restarted(zoneKey, i) ==
  /\ Has(zoneOpenTimers, TimerKey(zoneKey, i))
       => \A t \in timers' : t.id # zoneOpenTimers[TimerKey(zoneKey, i)]
  /\ ~Has(zoneRepeatCounts', TimerKey(zoneKey, i))
  /\ Has(zoneOpenTimers', TimerKey(zoneKey, i))
  /\ \E t \in timers' \ timers :
       /\ t.zoneKey = zoneKey /\ t.ruleIndex = i /\ t.repeatCount = 0
       /\ t.delayMs = (IF Rule(i).minutes = 0 THEN 20 ELSE Rule(i).minutes) * 60 * 1000
       /\ t.id = zoneOpenTimers'[TimerKey(zoneKey, i)]

\* the step changes no timer state
NoTimerState == UNCHANGED <<timers, zoneOpenTimers, zoneRepeatCounts, zoneOpenTimes>>

PostPending == \E task \in tasks : task.at = "postToGoogleSheets"

\* the zone of call c was last reported closed: a Zone Close of it was
\* received after c, and no Zone Open of it after that
ClosedAfter(c) ==
  \E close \in Writers("event") :
    /\ close.event = <<"Z","o","n","e"," ","C","l","o","s","e">> /\ close.zone = c.zone /\ close.n > c.n
    /\ \A later \in Writers("event") :
         (later.event = <<"Z","o","n","e"," ","O","p","e","n">> /\ later.zone = c.zone) => later.n < close.n

\* C28: rule evaluation follows arrival order: when a Zone Open of zone z was
\* received before a Zone Close of z and both are evaluated, the close leaves
\* no timer started by the open behind, also when the webhook post of the
\* earlier datagram ends after that of the later one (no timer has fired)
C28_ArrivalOrder ==
  \A open \in Writers("event") :
    (/\ open.event = <<"Z","o","n","e"," ","O","p","e","n">> /\ open.zone # NullNum
     /\ ClosedAfter(open)
     /\ ~PostPending /\ fired = 0 /\ exit = "running")
      => /\ \A t \in timers : t.zoneKey # NumberToString(open.zone)
         /\ ~Has(zoneOpenTimes, NumberToString(open.zone))

\* the timers whose callback this step runs
Firing == IF fired' # fired THEN {t \in timers : t.id \notin {u.id : u \in timers'}} ELSE {}

\* C29: whenever the callback of a rule timer runs for zone z the open time
\* of z is recorded, so that its computation of the open duration never reads
\* a missing value; that is, a timer of z is pending only while zoneOpenTimes
\* has an entry for z
C29_OpenTimeAtCallback ==
  /\ [][\A t \in Firing : Has(zoneOpenTimes, t.zoneKey)]_vars
  /\ [](\A t \in timers : Has(zoneOpenTimes, t.zoneKey))
  /\ [](exit # "unhandledRejection")

----------------------------------------------------------------------------
(* Claims on the Contact ID decode inside parseSyslogMessage *)

\* the run of digits after the first "CID Event:" of s that has 9 digits or
\* more after it
DigitRun(s) ==
  LET i == Min({j \in 1..Len(s) : KeywordAt(s, j) /\ DigitsAfterKeyword(s, j) >= 9})
      m == SkipSpaces(s, SkipSpaces(s, i + 3) + 6)
  IN SubSeq(s, m, SkipDigits(s, m) - 1)

\* the first n characters of s, all of s when it is shorter
FirstOf(s, n) == SubSeq(s, 1, IF Len(s) < n THEN Len(s) ELSE n)

\* C30: inside parseSyslogMessage the decode never fails: whenever the CID
\* pattern matches (no earlier matcher having returned) the captured run has
\* 9 or 10 digits, parseCID returns a result for it, and the record's event
\* is the decoded event and not 'Other'; a run of 11 digits or more is decoded
\* from its first 10
C30_DecodeNeverFails ==
  (pc = "parsed" /\ HasReport(Content)
     /\ ~zoneMatch(Content).found /\ ~ContainsCI(Content, <<"a","r","m">>))
    => /\ Len(ReportOf(Content)) \in {9, 10}
       /\ ReportOf(Content) = FirstOf(DigitRun(Content), 10)
       /\ ~parseCID(ReportOf(Content)).isNull
       /\ result.event = parseCID(FirstOf(DigitRun(Content), 10)).event
       /\ result.event # <<"O","t","h","e","r">>
       /\ result.partition = PartitionDigits(DigitRun(Content))
       /\ result.user = UserDigits(DigitRun(Content))

C30_Witness ==
  /\ pc = "parsed"
  /\ raw = <<"C","I","D"," ","E","v","e","n","t",":"," ","3","4","4","1","0","0","0","0","0","7","5">>
  /\ ReportOf(Content) = <<"3","4","4","1","0","0","0","0","0","7">>
  /\ result.event = <<"A","r","m","e","d"," ","S","t","a","y">>
  /\ result.message = <<"C","I","D"," ","E","v","e","n","t",":"," ","3","4","4","1","0","0","0","0","0","7","5"," ","(","A","r","m","e","d"," ","S","t","a","y","/","D","i","s","a","r","m","e","d",")">>

====
